---- MODULE Spec2Model ----
(***************************************************************************)
(* A model of the stoa layout engine: the Voronoi partition builders       *)
(* (components/AssetWheel.tsx, utils/voronoiWallet.ts, utils/voronoi.ts)   *)
(* and the circle-packing diagram (CircleDiagram, unnamed/part_000).       *)
(*                                                                         *)
(* Conventions of the model                                                *)
(*  - A JS number is a record [kind, v]: kind "num" carries the finite     *)
(*    value v (an integer of the model), "NaN", "Inf" (v = 1 or -1 gives   *)
(*    the sign) and "undefined" are the values a lookup or a fetch yields. *)
(*  - An unsigned 32-bit integer is a pair <<hi, lo>> of 16-bit halves, so *)
(*    that every intermediate value stays inside TLC's integers.           *)
(*  - d3-delaunay is a library outside the repository: what it returns     *)
(*    (which cells exist, how large their clipped polygons are) is chosen  *)
(*    by the environment inside the action that calls it.                  *)
(*                                                                         *)
(* Specifications                                                          *)
(*  - Spec, SpecWeights: each layout call as one step from input to output.*)
(*  - SpecLoops, FairLoops: the calls followed loop by loop.               *)
(*  - SpecDet: one entry point invoked twice on one input.                 *)
(*  - SpecClip: clipConvexPolygon on polygons of a grid, exactly.          *)
(***************************************************************************)
EXTENDS Integers, Sequences, FiniteSets, TLC

VARIABLES
  walletData,      \* input: sequence of [chain, tokens], tokens a sequence of <<sym, amt>>
  walletUsd,       \* input: sequence of [chain, sym, usd] entries (absent = undefined)
  entry,           \* which layout entry point ran
  pc,              \* position of the call
  activeChains,    \* the filtered input
  bestCells,       \* partition: chains owning a cell in the winning trial
  smartWeights,    \* partition: computeSmartWeights' result for each chain processed
  tokenShards,     \* partition output
  chainLabels,     \* partition output
  weightsForSizing,\* packing: the weight used to size each circle of raw
  nodes,           \* packing output
  pointerTargetsByChain, \* packing output
  locals,          \* the local variables of a call that is followed loop by loop
  geom,            \* repeated invocations: what the geometry libraries derive from the input
  invocations,     \* repeated invocations: the output of each invocation made so far
  clipIn,          \* clipConvexPolygon: [subject, clipper]
  clipOut,         \* clipConvexPolygon: the returned polygon (lineIntersection: the point)
  generators,      \* mulberry32: each generator created, its seed, state and values
  centroidOut,     \* polygonCentroid: the centroid kept with the returned polygon
  app              \* App: the state of the component, its timers, the transactions it issued

vars == <<walletData, walletUsd, entry, pc, activeChains, bestCells, smartWeights, tokenShards,
          chainLabels, weightsForSizing, nodes, pointerTargetsByChain,
          locals, geom, invocations, clipIn, clipOut, generators, centroidOut, app>>

----------------------------------------------------------------------------
(* JS numbers *)

Num(n) == [kind |-> "num", v |-> n]
NaN == [kind |-> "NaN", v |-> 0]
PosInf == [kind |-> "Inf", v |-> 1]
NegInf == [kind |-> "Inf", v |-> -1]
Undefined == [kind |-> "undefined", v |-> 0]

\* typeof x === "number"
IsNumber(x) == x.kind \in {"num", "NaN", "Inf"}

\* Number.isFinite(x)
IsFinite(x) == x.kind = "num"

\* x > 0 : false for NaN and undefined, true for +Infinity
GtZero(x) == \/ (x.kind = "num" /\ x.v > 0)
             \/ (x.kind = "Inf" /\ x.v > 0)

Max(a, b) == IF a >= b THEN a ELSE b
Min(a, b) == IF a <= b THEN a ELSE b

----------------------------------------------------------------------------
(* 32-bit arithmetic on <<hi, lo>> pairs *)

Half == 256 * 256

\* seed >>> 0
ToUint32(n) == <<(n \div Half) % Half, n % Half>>

Add32(a, b) ==
  LET lo == a[2] + b[2]
  IN  <<(a[1] + b[1] + (lo \div Half)) % Half, lo % Half>>

RECURSIVE XorBits(_, _, _)
XorBits(a, b, n) ==
  IF n = 0 THEN 0
  ELSE (((a % 2) + (b % 2)) % 2) + 2 * XorBits(a \div 2, b \div 2, n - 1)

RECURSIVE OrBits(_, _, _)
OrBits(a, b, n) ==
  IF n = 0 THEN 0
  ELSE (IF a % 2 = 1 \/ b % 2 = 1 THEN 1 ELSE 0) + 2 * OrBits(a \div 2, b \div 2, n - 1)

Xor32(a, b) == <<XorBits(a[1], b[1], 16), XorBits(a[2], b[2], 16)>>
Or32(a, b) == <<OrBits(a[1], b[1], 16), OrBits(a[2], b[2], 16)>>

RECURSIVE Pow2(_)
Pow2(k) == IF k = 0 THEN 1 ELSE 2 * Pow2(k - 1)

\* a >>> k, 0 < k < 16
Shr32(a, k) ==
  <<a[1] \div Pow2(k), (a[1] % Pow2(k)) * Pow2(16 - k) + (a[2] \div Pow2(k))>>

\* the 32-bit product of two 16-bit values, as <<hi, lo>>
Mul16(a, b) ==
  LET p0 == (a % 256) * b
      p1 == (a \div 256) * b
      s  == p0 + 256 * (p1 % 256)
  IN  <<((s \div Half) + (p1 \div 256)) % Half, s % Half>>

\* Math.imul(a, b): the low 32 bits of the product
Imul32(a, b) ==
  LET ll == Mul16(a[2], b[2])
      hl == Mul16(a[1], b[2])
      lh == Mul16(a[2], b[1])
  IN  <<(ll[1] + hl[2] + lh[2]) % Half, ll[2]>>

\* 0x6d2b79f5
Mulberry32Step == <<27947, 31221>>

\* mulberry32(seed): the generator's state t after construction
mulberry32(seed) == ToUint32(seed)

\* the same, for a seed that already is an unsigned 32-bit value
mulberry32Of(seed32) == seed32

\* one call of rng(): the new state
rngNext(t) == Add32(t, Mulberry32Step)

\* one call of rng(): the 32-bit numerator of the value returned (value = numerator / 2^32),
\* computed from the state after the increment
rngValue(t1) ==
  LET x1 == Imul32(Xor32(t1, Shr32(t1, 15)), Or32(<<0, 1>>, t1))
      x2 == Xor32(x1, Add32(x1, Imul32(Xor32(x1, Shr32(x1, 7)), Or32(<<0, 61>>, x1))))
  IN  Xor32(x2, Shr32(x2, 14))

\* floor(value * m) for a value numerator u and 0 < m < 32768
Scaled(u, m) == (u[1] * m + ((u[2] * m) \div Half)) \div Half

----------------------------------------------------------------------------
(* Sequences *)

RECURSIVE SumSeq(_)
SumSeq(s) == IF s = <<>> THEN 0 ELSE Head(s) + SumSeq(Tail(s))

RECURSIVE Flatten(_)
Flatten(ss) == IF ss = <<>> THEN <<>> ELSE Head(ss) \o Flatten(Tail(ss))

Range(s) == {s[i] : i \in DOMAIN s}

----------------------------------------------------------------------------
(* Input lookups *)

\* walletUsd?.[chainName]?.[sym]
usdOf(usd, chainName, sym) ==
  IF <<chainName, sym>> \in DOMAIN usd THEN usd[<<chainName, sym>>] ELSE Undefined

\* typeof usd === "number" && Number.isFinite(usd) && usd > 0
hasPrice(u) == IsNumber(u) /\ IsFinite(u) /\ GtZero(u)

\* CHAIN_COLORS[chainName] ?? "rgba(153,153,153,0.30)"
chainColor(chainName) ==
  CASE chainName = "Solana" -> "rgba(99, 99, 53, 0.30)"
    [] chainName = "Arbitrum" -> "rgba(39, 92, 101, 0.30)"
    [] chainName = "Ethereum" -> "rgba(39, 101, 84, 0.30)"
    [] OTHER -> "rgba(153,153,153,0.30)"

----------------------------------------------------------------------------
(* Weight model of the partition builder: AssetWheel.tsx computeSmartWeights *)

\* priced.sort((a, b) => a - b)
sortAscending(xs) ==
  LET n == Len(xs)
      rank(i) == Cardinality({j \in 1..n : xs[j] < xs[i] \/ (xs[j] = xs[i] /\ j < i)}) + 1
  IN  [p \in 1..n |-> xs[CHOOSE i \in 1..n : rank(i) = p]]

\* let fallbackWeight = 25
DefaultFallbackWeight == 25

\* if (fallbackWeight < 5) fallbackWeight = 5
MinFallbackWeight == 5

\* the fallback weight of a group from the usd values of its tokens
smartFallbackWeight(usds) ==
  LET priced == SelectSeq(usds, hasPrice)
      sorted == sortAscending([i \in 1..Len(priced) |-> priced[i].v])
  IN  IF Len(priced) > 0
      THEN LET m == sorted[(Len(sorted) \div 2) + 1]
           IN  IF m < MinFallbackWeight THEN MinFallbackWeight ELSE m
      ELSE DefaultFallbackWeight

computeSmartWeights(chainName, tokens, usd) ==
  LET usds == [i \in 1..Len(tokens) |-> usdOf(usd, chainName, tokens[i].sym)]
      fallbackWeight == smartFallbackWeight(usds)
  IN  [i \in 1..Len(tokens) |->
         [sym |-> tokens[i].sym,
          amt |-> tokens[i].amt,
          weight |-> IF hasPrice(usds[i]) THEN usds[i].v ELSE fallbackWeight]]

----------------------------------------------------------------------------
(* Partition mode: AssetWheel.tsx buildVoronoiWalletDiagram *)

\* .filter(([, amt]) => amt > 0)
amountPassesPartition(t) == GtZero(t.amt)

\* activeChains of AssetWheel.tsx and of utils/voronoiWallet.ts
partitionActiveChains(wd) ==
  LET mapped == [i \in 1..Len(wd) |->
                   [chain |-> wd[i].chain,
                    tokens |-> SelectSeq(wd[i].tokens, amountPassesPartition)]]
  IN  SelectSeq(mapped, LAMBDA x : Len(x.tokens) > 0)

\* What d3-delaunay and the clip give for one group: whether the group owns a cell in
\* the winning trial, and for each item seed k the area of its clipped sub-cell
\* (Dropped: the clip left fewer than 3 vertices).
Dropped == 0 - 1
MaxArea == 2

CellEnvs(nTokens) ==
  {[has |-> FALSE, areas |-> <<>>]} \cup
  {[has |-> TRUE, areas |-> a] : a \in [1..nTokens -> {Dropped} \cup (1..MaxArea)]}

RECURSIVE PartitionEnvs(_, _)
PartitionEnvs(active, n) ==
  IF n = 0 THEN {<<>>}
  ELSE {Append(e, c) : e \in PartitionEnvs(active, n - 1),
                       c \in CellEnvs(Len(active[n].tokens))}

\* polygonCentroid(clipped) of an item cell: the clipped polygon of item seed k is
\* named k, its centroid is the centroid of that polygon
centroidOfCell(k) == [centroidOf |-> k]

\* if (clipped.length > 2) shardCells.push(...), for k in seed order
shardCellsOf(areas) ==
  SelectSeq([k \in 1..Len(areas) |->
               [poly |-> k, centroid |-> centroidOfCell(k), areaAbs |-> areas[k]]],
            LAMBDA c : c.areaAbs # Dropped)

sortShardCellsAscending(cells) ==
  LET n == Len(cells)
      rank(i) == Cardinality({j \in 1..n : cells[j].areaAbs < cells[i].areaAbs
                                \/ (cells[j].areaAbs = cells[i].areaAbs /\ j < i)}) + 1
  IN  [p \in 1..n |-> cells[CHOOSE i \in 1..n : rank(i) = p]]

\* shardCells.sort((a, b) => b.areaAbs - a.areaAbs)
sortShardCells(cells) ==
  LET n == Len(cells)
      rank(i) == Cardinality({j \in 1..n : cells[j].areaAbs > cells[i].areaAbs
                                \/ (cells[j].areaAbs = cells[i].areaAbs /\ j < i)}) + 1
  IN  [p \in 1..n |-> cells[CHOOSE i \in 1..n : rank(i) = p]]

sortTokensByWeightAscending(entries) ==
  LET n == Len(entries)
      rank(i) == Cardinality({j \in 1..n : entries[j].weight < entries[i].weight
                                \/ (entries[j].weight = entries[i].weight /\ j < i)}) + 1
  IN  [p \in 1..n |-> entries[CHOOSE i \in 1..n : rank(i) = p]]

\* .sort((a, b) => b.weight - a.weight)
sortTokensByWeight(entries) ==
  LET n == Len(entries)
      rank(i) == Cardinality({j \in 1..n : entries[j].weight > entries[i].weight
                                \/ (entries[j].weight = entries[i].weight /\ j < i)}) + 1
  IN  [p \in 1..n |-> entries[CHOOSE i \in 1..n : rank(i) = p]]

wheelChainShardsStaleToken(chainName, rawTokens, usd, areas) ==
  LET shardCells == sortShardCells(shardCellsOf(areas))
      tokensSorted == sortTokensByWeight(computeSmartWeights(chainName, rawTokens, usd))
      nAssign == Min(Len(tokensSorted), Len(shardCells))
  IN  [idx \in 1..nAssign |->
         [chainName |-> chainName,
          label |-> tokensSorted[1].sym,
          amount |-> tokensSorted[1].amt,
          color |-> chainColor(chainName),
          poly |-> shardCells[idx].poly,
          centroid |-> shardCells[idx].centroid,
          areaAbs |-> shardCells[idx].areaAbs]]

wheelChainShardsSeedAmount(chainName, rawTokens, usd, areas) ==
  LET shardCells == sortShardCells(shardCellsOf(areas))
      tokensSorted == sortTokensByWeight(computeSmartWeights(chainName, rawTokens, usd))
      nAssign == Min(Len(tokensSorted), Len(shardCells))
  IN  [idx \in 1..nAssign |->
         [chainName |-> chainName,
          label |-> tokensSorted[idx].sym,
          amount |-> rawTokens[shardCells[idx].poly].amt,
          color |-> chainColor(chainName),
          poly |-> shardCells[idx].poly,
          centroid |-> shardCells[idx].centroid,
          areaAbs |-> shardCells[idx].areaAbs]]

\* the token cells of one group: the idx-th largest sub-cell goes to the idx-th
\* heaviest token
wheelChainShards(chainName, rawTokens, usd, areas) ==
  LET shardCells == sortShardCells(shardCellsOf(areas))
      tokensSorted == sortTokensByWeight(computeSmartWeights(chainName, rawTokens, usd))
      nAssign == Min(Len(tokensSorted), Len(shardCells))
  IN  [idx \in 1..nAssign |->
         [chainName |-> chainName,
          label |-> tokensSorted[idx].sym,
          amount |-> tokensSorted[idx].amt,
          color |-> chainColor(chainName),
          poly |-> shardCells[idx].poly,
          centroid |-> shardCells[idx].centroid,
          areaAbs |-> shardCells[idx].areaAbs]]

\* activeChains[i].tokens of the chain named c
tokensOfChain(active, c) == active[CHOOSE i \in 1..Len(active) : active[i].chain = c].tokens

\* polygonCentroid(cell) of the cell the winning trial holds for a group
centroidOfGroupCell(chainName) == [centroidOf |-> chainName]

\* chainLabels.push({ name: chainName, x: chainCentroid[0], y: chainCentroid[1] })
labelOf(chainName) == [name |-> chainName, anchor |-> centroidOfGroupCell(chainName)]

labelsOfEveryGroup(active, env) == [p \in 1..Len(active) |-> labelOf(active[p].chain)]

\* the labels pushed for the groups that own a cell, in group order
labelsOf(active, env) ==
  LET idx == SelectSeq([i \in 1..Len(active) |-> i], LAMBDA i : env[i].has)
  IN  [p \in 1..Len(idx) |-> labelOf(active[idx[p]].chain)]

\* (where geom lists the cells the libraries leave, those are the cells)
BuildWheel ==
  /\ pc = "idle"
  /\ LET active == partitionActiveChains(walletData)
         nChains == Len(active)
     IN  \E env \in PartitionEnvs(active, nChains) :
           /\ geom # <<>> => env = geom.env
           /\ activeChains' = active
           /\ bestCells' = {active[i].chain : i \in {j \in 1..nChains : env[j].has}}
           /\ smartWeights' =
                [c \in {active[j].chain : j \in {j \in 1..nChains : env[j].has}} |->
                   computeSmartWeights(c, tokensOfChain(active, c), walletUsd)]
           /\ tokenShards' =
                IF nChains = 0 THEN <<>>
                ELSE Flatten([i \in 1..nChains |->
                       IF env[i].has
                       THEN wheelChainShards(active[i].chain, active[i].tokens,
                                             walletUsd, env[i].areas)
                       ELSE <<>>])
           /\ chainLabels' = IF nChains = 0 THEN <<>> ELSE labelsOf(active, env)
  /\ entry' = "wheel"
  /\ pc' = "done"
  /\ UNCHANGED <<walletData, walletUsd, weightsForSizing, nodes, pointerTargetsByChain>>
  /\ UNCHANGED <<locals, geom, invocations, clipIn, clipOut, generators, centroidOut, app>>

----------------------------------------------------------------------------
(* Partition mode: utils/voronoiWallet.ts buildVoronoiWalletDiagram *)

\* tokenShards.push(...) for each k whose raw cell and clipped cell keep 3 vertices,
\* in seed order: the k-th token keeps the k-th seed's polygon
walletChainShards(chainName, tokenEntries, areas) ==
  LET kept == SelectSeq([k \in 1..Len(tokenEntries) |-> k], LAMBDA k : areas[k] # Dropped)
  IN  [p \in 1..Len(kept) |->
         [chainName |-> chainName,
          label |-> tokenEntries[kept[p]].sym,
          amount |-> tokenEntries[kept[p]].amt,
          color |-> chainColor(chainName),
          poly |-> kept[p],
          centroid |-> centroidOfCell(kept[p]),
          areaAbs |-> areas[kept[p]]]]

\* the call, when its loops end (see the loop-level actions for when they do)
BuildWallet ==
  /\ pc = "idle"
  /\ LET active == partitionActiveChains(walletData)
         nChains == Len(active)
     IN  \E env \in PartitionEnvs(active, nChains) :
           /\ activeChains' = active
           /\ bestCells' = {active[i].chain : i \in {j \in 1..nChains : env[j].has}}
           /\ tokenShards' =
                IF nChains = 0 THEN <<>>
                ELSE Flatten([i \in 1..nChains |->
                       IF env[i].has
                       THEN walletChainShards(active[i].chain, active[i].tokens,
                                              env[i].areas)
                       ELSE <<>>])
           /\ chainLabels' = IF nChains = 0 THEN <<>> ELSE labelsOf(active, env)
  /\ entry' = "wallet"
  /\ pc' = "done"
  /\ UNCHANGED <<walletData, walletUsd, smartWeights, weightsForSizing, nodes,
                 pointerTargetsByChain>>
  /\ UNCHANGED <<locals, geom, invocations, clipIn, clipOut, generators, centroidOut, app>>

----------------------------------------------------------------------------
(* Packing mode: CircleDiagram (unnamed/part_000)                           *)
(* Lengths are integers in units of 1/PosUnit, weights in units of          *)
(* 1/WeightUnit (so that 0.65 * fallbackUsd is exact); a quotient is        *)
(* rounded toward zero.                                                     *)

PosUnit == 2 * 5
WeightUnit == 4 * 5

Quot(a, b) == IF a >= 0 THEN a \div b ELSE 0 - ((0 - a) \div b)

RECURSIVE IsqrtBetween(_, _, _)
IsqrtBetween(n, lo, hi) ==
  IF lo >= hi THEN lo
  ELSE LET mid == (lo + hi + 1) \div 2
       IN  IF mid * mid <= n THEN IsqrtBetween(n, mid, hi)
           ELSE IsqrtBetween(n, lo, mid - 1)

\* floor(sqrt(n)), n < 2^30
Isqrt(n) == IsqrtBetween(n, 0, 32767)

\* Math.hypot(x, y)
Hypot(x, y) == Isqrt(x * x + y * y)

RADIUS == 200
MIN_R == 27
MAX_R == 78

clampNoFloor(v, lo, hi) == Min(hi, v)

\* Math.max(lo, Math.min(hi, v))
clamp(v, lo, hi) == Max(lo, Min(hi, v))

\* .filter(([, amt]) => Number.isFinite(amt) && amt > 0)
amountPassesPacking(t) == IsFinite(t.amt) /\ GtZero(t.amt)

packingActiveChains(wd) ==
  LET mapped == [i \in 1..Len(wd) |->
                   [chain |-> wd[i].chain,
                    tokens |-> SelectSeq(wd[i].tokens, amountPassesPacking)]]
  IN  SelectSeq(mapped, LAMBDA c : Len(c.tokens) > 0)

\* c.chain.length
chainNameLength(chainName) ==
  CASE chainName = "Ethereum" -> 8
    [] chainName = "Solana" -> 6
    [] chainName = "Base" -> 4
    [] OTHER -> 1

\* s = 1337; for each chain: s = (s*31 + name length) >>> 0; s = (s*31 + token count) >>> 0
RECURSIVE circleSeedFrom(_, _)
circleSeedFrom(s, chains) ==
  IF chains = <<>> \/ s = <<>> THEN s
  ELSE LET s1 == Add32(Imul32(s, <<0, 31>>), <<0, chainNameLength(Head(chains).chain)>>)
           s2 == Add32(Imul32(s1, <<0, 31>>), <<0, Len(Head(chains).tokens)>>)
       IN  circleSeedFrom(s2, Tail(chains))

circleSeed(active) == circleSeedFrom(<<0, 1337>>, active)

\* raw: one entry per token of every active chain, chain by chain
circleRaw(active, usd) ==
  Flatten([i \in 1..Len(active) |->
    [k \in 1..Len(active[i].tokens) |->
       LET t == active[i].tokens[k]
           u == usdOf(usd, active[i].chain, t.sym)
       IN  [chain |-> active[i].chain,
            symbol |-> t.sym,
            amount |-> t.amt,
            usd |-> IF hasPrice(u) THEN u ELSE Undefined,
            weight |-> IF hasPrice(u) THEN u.v ELSE Max(t.amt.v, 0),
            hasPrice |-> hasPrice(u)]]])

\* fallbackUsd: 25, or the middle priced weight of ALL chains clamped to [5, 2500]
circleFallbackUsd(raw) ==
  LET priced == SelectSeq(raw, LAMBDA r : r.hasPrice)
      sorted == sortAscending([i \in 1..Len(priced) |-> priced[i].weight])
  IN  IF Len(priced) > 0
      THEN clamp(sorted[(Len(sorted) \div 2) + 1], 5, 2500)
      ELSE 25

\* weightsForSizing, in 1/WeightUnit: r.weight if priced, else max(fallbackUsd * 0.65, 15)
circleWeightsForSizing(raw) ==
  LET fallbackUsd == circleFallbackUsd(raw)
  IN  [i \in 1..Len(raw) |->
         IF raw[i].hasPrice THEN raw[i].weight * WeightUnit
         ELSE Max((fallbackUsd * 65 * WeightUnit) \div 100, 15 * WeightUnit)]

\* rr = sqrt(k * w / pi) with k = pi * R^2 * 0.50 / sumW, in 1/PosUnit
circleUnclampedRadius(w, sumW) ==
  Isqrt(((((RADIUS * RADIUS * 50) \div 100) * w) \div sumW) * PosUnit * PosUnit)

circleRadiusNoCap(w, sumW) == Max(circleUnclampedRadius(w, sumW), MIN_R * PosUnit)

circleRadius(w, sumW) ==
  clamp(circleUnclampedRadius(w, sumW), MIN_R * PosUnit, MAX_R * PosUnit)

\* (cos, sin) of -pi/2 + 2*pi*i/n, times 10000, for the group counts of the model
anchorDirection(i, n) ==
  CASE n = 1 -> <<0, 0 - 10000>>
    [] n = 2 -> IF i = 0 THEN <<0, 0 - 10000>> ELSE <<0, 10000>>
    [] n = 3 -> CASE i = 0 -> <<0, 0 - 10000>>
                  [] i = 1 -> <<8660, 5000>>
                  [] OTHER -> <<0 - 8660, 5000>>
    [] OTHER -> CASE i = 0 -> <<0, 0 - 10000>>
                  [] i = 1 -> <<10000, 0>>
                  [] i = 2 -> <<0, 10000>>
                  [] OTHER -> <<0 - 10000, 0>>

\* ringR = RADIUS * 0.78
ringR == (RADIUS * PosUnit * 78) \div 100

chainAnchorFromRight(i, n) ==
  [ax |-> 0 - Quot(ringR * anchorDirection(i, n)[2], 10000),
   ay |-> Quot(ringR * anchorDirection(i, n)[1], 10000)]

\* ax = ringR * cos(theta), ay = ringR * sin(theta), theta = -PI/2 + 2*PI*i/n
chainAnchor(i, n) ==
  [ax |-> Quot(ringR * anchorDirection(i, n)[1], 10000),
   ay |-> Quot(ringR * anchorDirection(i, n)[2], 10000)]

\* index (from 0) of chain in the active list
chainIndex(active, chainName) ==
  (CHOOSE i \in 1..Len(active) : active[i].chain = chainName) - 1

\* the state of rng after n calls
RECURSIVE rngAfter(_, _)
\* (the comparison of t keeps the evaluation of the generator's state eager)
rngAfter(t, n) == IF n = 0 \/ t = <<>> THEN t ELSE rngAfter(rngNext(t), n - 1)

\* (rng() - 0.5) * (RADIUS * 0.10), for the call that moves the state to t1
jitterOf(t1) == Scaled(rngValue(t1), (RADIUS * PosUnit) \div 10) - ((RADIUS * PosUnit) \div 20)

\* built: node idx takes 7 values of the one generator, the first two for its jitter
circleBuilt(active, raw, weights, seed) ==
  LET sumW == SumSeq(weights)
  IN  [idx \in 1..Len(raw) |->
        LET anchor == chainAnchor(chainIndex(active, raw[idx].chain), Len(active))
            t0 == rngAfter(mulberry32Of(seed), 7 * (idx - 1))
            t1 == rngNext(t0)
            t2 == rngNext(t1)
        IN  [id |-> <<raw[idx].chain, raw[idx].symbol, idx - 1>>,
             chain |-> raw[idx].chain,
             symbol |-> raw[idx].symbol,
             amount |-> raw[idx].amount,
             r |-> circleRadius(weights[idx], sumW),
             x |-> anchor.ax + jitterOf(t1),
             y |-> anchor.ay + jitterOf(t2),
             ax |-> anchor.ax,
             ay |-> anchor.ay]]

\* built.sort((a, b) => b.r - a.r)
sortBuilt(built) ==
  LET n == Len(built)
      rank(i) == Cardinality({j \in 1..n : built[j].r > built[i].r
                                \/ (built[j].r = built[i].r /\ j < i)}) + 1
  IN  [p \in 1..n |-> built[CHOOSE i \in 1..n : rank(i) = p]]

repelOnFirstOnly(ns, i, j, opts, axis) ==
  LET a == IF i < j THEN ns[i] ELSE ns[j]
      b == IF i < j THEN ns[j] ELSE ns[i]
      dx == b.x - a.x
      dy == b.y - a.y
      d == Hypot(dx, dy)
      minD == a.r + b.r + opts.padding
      along == IF axis = "x" THEN dx ELSE dy
      push == IF d < minD /\ d > 0
              THEN Quot(along * (minD - d) * opts.repelStrength, d * 200)
              ELSE 0
  IN  IF i < j THEN 0 - push ELSE 0

\* the velocity change of circle i from the repulsion of circle j in one iteration:
\* what the pair's first circle loses, its second gains
repelOn(ns, i, j, opts, axis) ==
  LET a == IF i < j THEN ns[i] ELSE ns[j]
      b == IF i < j THEN ns[j] ELSE ns[i]
      dx == b.x - a.x
      dy == b.y - a.y
      d == Hypot(dx, dy)
      minD == a.r + b.r + opts.padding
      along == IF axis = "x" THEN dx ELSE dy
      push == IF d < minD /\ d > 0
              THEN Quot(along * (minD - d) * opts.repelStrength, d * 200)
              ELSE 0
  IN  IF i < j THEN 0 - push ELSE push

\* one iteration of packCircles on [nodes, vx, vy]
packStep(st, opts) ==
  LET ns == st.nodes
      n == Len(ns)
      repel(i, axis) ==
        SumSeq([j \in 1..n |-> IF j = i THEN 0 ELSE repelOn(ns, i, j, opts, axis)])
      pull(i, axis) ==
        IF axis = "x" THEN Quot((ns[i].ax - ns[i].x) * opts.anchorStrength, 1000)
        ELSE Quot((ns[i].ay - ns[i].y) * opts.anchorStrength, 1000)
      back(i, axis) ==
        LET d0 == Hypot(ns[i].x, ns[i].y)
            maxD == opts.containerR - ns[i].r - opts.padding
            c == IF axis = "x" THEN ns[i].x ELSE ns[i].y
        IN  IF d0 > maxD /\ d0 > 0
            THEN 0 - Quot(c * (d0 - maxD) * opts.boundaryStrength, d0 * 100)
            ELSE 0
      vx1 == [i \in 1..n |->
                Quot((st.vx[i] + repel(i, "x") + pull(i, "x") + back(i, "x")) * opts.damping, 100)]
      vy1 == [i \in 1..n |->
                Quot((st.vy[i] + repel(i, "y") + pull(i, "y") + back(i, "y")) * opts.damping, 100)]
  IN  [nodes |-> [i \in 1..n |-> [ns[i] EXCEPT !.x = @ + vx1[i], !.y = @ + vy1[i]]],
       vx |-> vx1,
       vy |-> vy1]

RECURSIVE packIterate(_, _, _)
packIterate(st, opts, it) ==
  IF it = 0 THEN st ELSE packIterate(packStep(st, opts), opts, it - 1)

\* packCircles(nodesIn, opts): a copy of the nodes after opts.iterations iterations
packCircles(nodesIn, opts) ==
  packIterate([nodes |-> nodesIn,
               vx |-> [i \in 1..Len(nodesIn) |-> 0],
               vy |-> [i \in 1..Len(nodesIn) |-> 0]],
              opts, opts.iterations).nodes

\* Math.hypot(n.x, n.y) + n.r
edgeReach(n) == Hypot(n.x, n.y) + n.r

\* the index of the first circle of ns among idxs with the largest edge reach
firstOutermost(ns, idxs) ==
  CHOOSE i \in idxs :
    /\ \A j \in idxs : edgeReach(ns[j]) <= edgeReach(ns[i])
    /\ \A j \in idxs : j < i => edgeReach(ns[j]) < edgeReach(ns[i])

\* iteration counts of the two relaxations (420 and 120 in the source)
PrimaryIterations == 3
SecondaryIterations == 2

primaryOpts ==
  [containerR |-> (RADIUS - 2) * PosUnit, iterations |-> PrimaryIterations,
   repelStrength |-> 100, anchorStrength |-> 20, boundaryStrength |-> 55,
   damping |-> 86, padding |-> (22 * PosUnit) \div 10]

secondaryOpts ==
  [containerR |-> (RADIUS - 2) * PosUnit, iterations |-> SecondaryIterations,
   repelStrength |-> 100, anchorStrength |-> 12, boundaryStrength |-> 65,
   damping |-> 86, padding |-> (22 * PosUnit) \div 10]

pushFirstToOutline(packed) ==
  LET target == packed[1]
      d == Hypot(target.x, target.y)
      desired == (RADIUS - 2) * PosUnit - target.r - PosUnit
  IN  [packed EXCEPT ![1] =
         [target EXCEPT !.x = IF d > 0 THEN Quot(target.x * desired, d) ELSE 0,
                        !.y = IF d > 0 THEN Quot(target.y * desired, d) ELSE 0]]

\* target.x = ux * desired; target.y = uy * desired, desired = (RADIUS - 2) - target.r - 1.0
pushToOutline(packed) ==
  LET bestIdx == firstOutermost(packed, 1..Len(packed))
      target == packed[bestIdx]
      d == Hypot(target.x, target.y)
      desired == (RADIUS - 2) * PosUnit - target.r - PosUnit
  IN  [packed EXCEPT ![bestIdx] =
         [target EXCEPT !.x = IF d > 0 THEN Quot(target.x * desired, d) ELSE 0,
                        !.y = IF d > 0 THEN Quot(target.y * desired, d) ELSE 0]]

pointerTargetsOverall(active, packed) ==
  LET chains == {active[i].chain : i \in 1..Len(active)}
      of(c) == {i \in 1..Len(packed) : packed[i].chain = c}
  IN  [c \in {c \in chains : of(c) # {}} |-> packed[firstOutermost(packed, 1..Len(packed))]]

\* one pointer target per chain that has a circle: its circle of largest edge reach
pointerTargets(active, packed) ==
  LET chains == {active[i].chain : i \in 1..Len(active)}
      of(c) == {i \in 1..Len(packed) : packed[i].chain = c}
  IN  [c \in {c \in chains : of(c) # {}} |-> packed[firstOutermost(packed, of(c))]]

\* the layout useMemo of CircleDiagram
BuildCircle ==
  /\ pc = "idle"
  /\ LET active == packingActiveChains(walletData)
     IN  /\ activeChains' = active
         /\ IF Len(active) = 0
            THEN /\ nodes' = <<>>
                 /\ pointerTargetsByChain' = <<>>
                 /\ weightsForSizing' = <<>>
            ELSE LET raw == circleRaw(active, walletUsd)
                     weights == circleWeightsForSizing(raw)
                     built == sortBuilt(circleBuilt(active, raw, weights, circleSeed(active)))
                     packed == packCircles(pushToOutline(packCircles(built, primaryOpts)),
                                           secondaryOpts)
                 IN  /\ nodes' = packed
                     /\ pointerTargetsByChain' = pointerTargets(active, packed)
                     /\ weightsForSizing' =
                          [i \in 1..Len(raw) |->
                             [chain |-> raw[i].chain, symbol |-> raw[i].symbol,
                              hasPrice |-> raw[i].hasPrice, usd |-> raw[i].usd,
                              w |-> weights[i]]]
  /\ entry' = "circle"
  /\ pc' = "done"
  /\ UNCHANGED <<walletData, walletUsd, bestCells, smartWeights, tokenShards, chainLabels>>
  /\ UNCHANGED <<locals, geom, invocations, clipIn, clipOut, generators, centroidOut, app>>

----------------------------------------------------------------------------
(* The layout calls on the inputs of the model *)

\* an input: chains[i] holds the tokens tokens[i], with the amounts amt
walletDataOf(chains, tokens, amt) ==
  [i \in 1..Len(chains) |->
     [chain |-> chains[i],
      tokens |-> [k \in 1..Len(tokens[i]) |->
                    [sym |-> tokens[i][k], amt |-> amt[<<chains[i], tokens[i][k]>>]]]]]

Idle ==
  /\ entry = "none"
  /\ pc = "idle"
  /\ activeChains = <<>>
  /\ bestCells = {}
  /\ smartWeights = <<>>
  /\ tokenShards = <<>>
  /\ chainLabels = <<>>
  /\ weightsForSizing = <<>>
  /\ nodes = <<>>
  /\ pointerTargetsByChain = <<>>

\* no call is followed loop by loop, no invocation is repeated, no polygon is clipped,
\* no generator is observed
Whole ==
  /\ locals = <<>>
  /\ geom = <<>>
  /\ invocations = <<>>
  /\ clipIn = <<>>
  /\ clipOut = <<>>
  /\ generators = <<>>
  /\ centroidOut = <<>>
  /\ app = <<>>

\* Spec: two groups, every kind of amount a balance fetch can hand over
ChainNames == <<"Ethereum", "Base">>
TokenNames == <<<<"ETH", "USDC">>, <<"DAI">>>>
Slots == {<<"Ethereum", "ETH">>, <<"Ethereum", "USDC">>, <<"Base", "DAI">>}
AmountValues == {NaN, PosInf, NegInf, Num(0), Num(0 - 1), Num(2)}

Init ==
  /\ \/ walletData = <<>>
     \/ \E amt \in [Slots -> AmountValues] :
          walletData = walletDataOf(ChainNames, TokenNames, amt)
  /\ walletUsd \in [Slots -> {Undefined, Num(40)}]
  /\ Idle
  /\ Whole

Next == BuildWheel \/ BuildWallet \/ BuildCircle

Spec == Init /\ [][Next]_vars

\* SpecWeights: one group of three tokens, every kind of dollar value
WeightChainNames == <<"Ethereum">>
WeightTokenNames == <<<<"ETH", "USDC", "WBTC">>>>
WeightSlots == {<<"Ethereum", "ETH">>, <<"Ethereum", "USDC">>, <<"Ethereum", "WBTC">>}
UsdValues ==
  {Undefined, NaN, PosInf, Num(0), Num(0 - 3), Num(1), Num(7), Num(10), Num(1000), Num(4000)}

InitWeights ==
  /\ \E amt \in [WeightSlots -> {Num(0), Num(2)}] :
       walletData = walletDataOf(WeightChainNames, WeightTokenNames, amt)
  /\ walletUsd \in [WeightSlots -> UsdValues]
  /\ Idle
  /\ Whole

NextWeights == BuildWheel \/ BuildCircle

SpecWeights == InitWeights /\ [][NextWeights]_vars

\* SpecItems: the group of SpecWeights; geom.env lists, for the group, whether it owns
\* a cell and the area of each item's clipped sub-cell (Dropped: 2 vertices or fewer)
ItemUsdValues == {Undefined, Num(1), Num(7), Num(4000)}

InitItems ==
  /\ \E amt \in [WeightSlots -> {Num(0), Num(2)}] :
       walletData = walletDataOf(WeightChainNames, WeightTokenNames, amt)
  /\ walletUsd \in [WeightSlots -> ItemUsdValues]
  /\ Idle
  /\ locals = <<>>
  /\ \E env \in PartitionEnvs(partitionActiveChains(walletData),
                               Len(partitionActiveChains(walletData))) :
       geom = [env |-> env]
  /\ invocations = <<>>
  /\ clipIn = <<>>
  /\ clipOut = <<>>
  /\ generators = <<>>
  /\ centroidOut = <<>>
  /\ app = <<>>

NextItems == BuildWheel

SpecItems == InitItems /\ [][NextItems]_vars

----------------------------------------------------------------------------
(* The three layout calls followed loop by loop: one action per iteration    *)
(* of a loop and one per exit. A candidate point is one of NumCandidates     *)
(* places of the bounding box; which of them test inside a group cell is the *)
(* cell's geometry, chosen by the environment when the cell is fetched. The  *)
(* caps of the source are scaled down to the bounds below. Coverage is in    *)
(* thousandths.                                                              *)

\* maxSeedSearch = 80 in both builders
maxSeedSearch == 2
\* tries < 200000 (utils/voronoiWallet.ts)
MaxRejectionTries == 2
\* safety++ < 1000 (AssetWheel.tsx)
MaxSafety == 2
\* t < 5000 (utils/voronoiWallet.ts)
MaxCoinTries == 2
NumCandidates == 2

Candidates == 0..(NumCandidates - 1)
NoPoint == 0 - 1
JitteredPoint == NumCandidates
CoverageValues == {0, 500, 900, 995}
\* circleSegments: 160 in AssetWheel.tsx, a parameter of utils/voronoiWallet.ts
WheelCircleSegments == 8 * 20
CircleSegmentChoices == {8, WheelCircleSegments}
\* the area of makeCirclePolygon(R, segments) over Math.PI * R * R, in thousandths
\* rounded down: (n / 2) * sin(2 * pi / n) / pi
polygonCoverage(segments) == IF segments = 8 THEN 900 ELSE 999

inputs == <<walletData, walletUsd>>
partitionOut == <<bestCells, smartWeights, tokenShards, chainLabels>>
packingOut == <<weightsForSizing, nodes, pointerTargetsByChain>>
others == <<geom, invocations, clipIn, clipOut, generators, centroidOut, app>>

NewLocals ==
  [s |-> 0, bestCoverage |-> 0 - 1000, tries |-> 0, seeds |-> 0, i |-> 0, k |-> 0,
   safety |-> 0, t |-> 0, pt |-> NoPoint, cand |-> NoPoint, inside |-> {}, it |-> 0,
   st |-> <<>>, circleSegments |-> WheelCircleSegments, bestSeeds |-> NoPoint,
   nodesIn |-> <<>>]

chainNamesOf(active) == {active[i].chain : i \in 1..Len(active)}

\* the entry of a partition builder: the filter and the early return
StartPartition(e) ==
  /\ pc = "idle"
  /\ entry' = e
  /\ activeChains' = partitionActiveChains(walletData)
  /\ \E segments \in IF e = "wallet" THEN CircleSegmentChoices ELSE {WheelCircleSegments} :
       locals' = [NewLocals EXCEPT !.circleSegments = segments]
  /\ pc' = IF Len(partitionActiveChains(walletData)) = 0 THEN "done" ELSE "trial"
  /\ UNCHANGED <<inputs, partitionOut, packingOut, others>>

ScoreTrialKeepLatest ==
  \E cells \in SUBSET chainNamesOf(activeChains), coverage \in CoverageValues :
    /\ cells = {} => coverage = 0
    /\ coverage <= polygonCoverage(locals.circleSegments)
    /\ geom # <<>> =>
         /\ cells = geom.trials[locals.s + 1].cells
         /\ coverage = Min(geom.trials[locals.s + 1].coverage,
                           polygonCoverage(locals.circleSegments))
    /\ IF coverage >= locals.bestCoverage
       THEN /\ bestCells' = cells
            /\ IF coverage >= 995
               THEN /\ pc' = "chains"
                    /\ locals' = [locals EXCEPT !.bestCoverage = coverage,
                                                !.bestSeeds = locals.s, !.i = 0]
               ELSE /\ pc' = "trial"
                    /\ locals' = [locals EXCEPT !.bestCoverage = coverage,
                                                !.bestSeeds = locals.s, !.s = @ + 1]
       ELSE /\ bestCells' = bestCells
            /\ pc' = "trial"
            /\ locals' = [locals EXCEPT !.s = @ + 1]

\* the end of a trial: the cells the library and the clip leave, the coverage, the
\* comparison with the best trial and the early exit. bestSeeds holds the seeds of
\* trial s, which mulberry32(seedBase + s) fixes, as s. Where geom lists the outcome
\* of every trial, the trial has that outcome, its coverage capped by the polygon's.
ScoreTrial ==
  \E cells \in SUBSET chainNamesOf(activeChains), coverage \in CoverageValues :
    /\ cells = {} => coverage = 0
    /\ coverage <= polygonCoverage(locals.circleSegments)
    /\ geom # <<>> =>
         /\ cells = geom.trials[locals.s + 1].cells
         /\ coverage = Min(geom.trials[locals.s + 1].coverage,
                           polygonCoverage(locals.circleSegments))
    /\ IF coverage > locals.bestCoverage
       THEN /\ bestCells' = cells
            /\ IF coverage >= 995
               THEN /\ pc' = "chains"
                    /\ locals' = [locals EXCEPT !.bestCoverage = coverage,
                                                !.bestSeeds = locals.s, !.i = 0]
               ELSE /\ pc' = "trial"
                    /\ locals' = [locals EXCEPT !.bestCoverage = coverage,
                                                !.bestSeeds = locals.s, !.s = @ + 1]
       ELSE /\ bestCells' = bestCells
            /\ pc' = "trial"
            /\ locals' = [locals EXCEPT !.s = @ + 1]

\* AssetWheel.tsx: for (let s = 0; s < maxSeedSearch; s++) { ... }
WheelTrial ==
  /\ entry = "wheel" /\ pc = "trial"
  /\ locals.s < maxSeedSearch
  /\ ScoreTrial
  /\ UNCHANGED <<inputs, entry, activeChains, smartWeights, tokenShards, chainLabels,
                 packingOut, others>>

TrialsEnd(e) ==
  /\ entry = e /\ pc = "trial"
  /\ ~(locals.s < maxSeedSearch)
  /\ pc' = "chains"
  /\ locals' = [locals EXCEPT !.i = 0]
  /\ UNCHANGED <<inputs, entry, activeChains, partitionOut, packingOut, others>>

\* for (let i = 0; i < nChains; i++): the group's cell, its label, its bounding box
NextChain(e) ==
  /\ entry = e /\ pc = "chains"
  /\ locals.i < Len(activeChains)
  /\ LET chainName == activeChains[locals.i + 1].chain
     IN  IF chainName \notin bestCells
         THEN /\ locals' = [locals EXCEPT !.i = @ + 1]
              /\ pc' = "chains"
              /\ UNCHANGED chainLabels
         ELSE \E inside \in SUBSET Candidates :
                /\ chainLabels' = Append(chainLabels, labelOf(chainName))
                /\ locals' = [locals EXCEPT !.inside = inside, !.k = 0]
                /\ pc' = "tokens"
  /\ UNCHANGED <<inputs, entry, activeChains, bestCells, smartWeights, tokenShards,
                 packingOut, others>>

Return(e) ==
  /\ entry = e /\ pc = "chains"
  /\ ~(locals.i < Len(activeChains))
  /\ pc' = "done"
  /\ UNCHANGED <<inputs, entry, activeChains, partitionOut, packingOut, locals, others>>

\* AssetWheel.tsx: for (let k = 0; k < rawTokens.length; k++) { let pt = null; ... let safety = 0;
WheelToken ==
  /\ entry = "wheel" /\ pc = "tokens"
  /\ locals.k < Len(activeChains[locals.i + 1].tokens)
  /\ locals' = [locals EXCEPT !.pt = NoPoint, !.safety = 0]
  /\ pc' = "sample"
  /\ UNCHANGED <<inputs, entry, activeChains, partitionOut, packingOut, others>>

\* AssetWheel.tsx: one iteration of while (!pt && safety++ < 1000)
WheelSample ==
  /\ entry = "wheel" /\ pc = "sample"
  /\ locals.pt = NoPoint /\ locals.safety < MaxSafety
  /\ \E cand \in Candidates :
       locals' = [locals EXCEPT !.safety = @ + 1, !.cand = cand,
                                !.pt = IF cand \in locals.inside THEN cand ELSE NoPoint]
  /\ pc' = "sample"
  /\ UNCHANGED <<inputs, entry, activeChains, partitionOut, packingOut, others>>

\* AssetWheel.tsx: the exit of that loop (safety++ is evaluated only when pt is null)
WheelSampleEnd ==
  /\ entry = "wheel" /\ pc = "sample"
  /\ ~(locals.pt = NoPoint /\ locals.safety < MaxSafety)
  /\ locals' = IF locals.pt = NoPoint THEN [locals EXCEPT !.safety = @ + 1] ELSE locals
  /\ pc' = "fallback"
  /\ UNCHANGED <<inputs, entry, activeChains, partitionOut, packingOut, others>>

\* AssetWheel.tsx: if (!pt) { pt = the jittered centroid }; coinPts.push(pt)
WheelPush ==
  /\ entry = "wheel" /\ pc = "fallback"
  /\ locals' = [locals EXCEPT !.pt = IF locals.pt = NoPoint THEN JitteredPoint ELSE @,
                              !.k = @ + 1]
  /\ pc' = "tokens"
  /\ UNCHANGED <<inputs, entry, activeChains, partitionOut, packingOut, others>>

\* AssetWheel.tsx: after the seeds of the group: the item cells and their assignment
WheelShards ==
  /\ entry = "wheel" /\ pc = "tokens"
  /\ ~(locals.k < Len(activeChains[locals.i + 1].tokens))
  /\ LET chainName == activeChains[locals.i + 1].chain
         rawTokens == activeChains[locals.i + 1].tokens
     IN  \E areas \in [1..Len(rawTokens) -> {Dropped} \cup (1..MaxArea)] :
           /\ tokenShards' = tokenShards \o wheelChainShards(chainName, rawTokens, walletUsd, areas)
           /\ smartWeights' = (chainName :> computeSmartWeights(chainName, rawTokens, walletUsd))
                                @@ smartWeights
  /\ locals' = [locals EXCEPT !.i = @ + 1]
  /\ pc' = "chains"
  /\ UNCHANGED <<inputs, entry, activeChains, bestCells, chainLabels, packingOut, others>>

\* utils/voronoiWallet.ts: for (let s = 0; s < P.maxSeedSearch; s++) { ... let tries = 0;
WalletTrial ==
  /\ entry = "wallet" /\ pc = "trial"
  /\ locals.s < maxSeedSearch
  /\ locals' = [locals EXCEPT !.tries = 0, !.seeds = 0]
  /\ pc' = "reject"
  /\ UNCHANGED <<inputs, entry, activeChains, partitionOut, packingOut, others>>

\* utils/voronoiWallet.ts: one iteration of while (seeds.length < nChains && tries < 200000);
\* the first candidate has no seed to be too close to
WalletReject ==
  /\ entry = "wallet" /\ pc = "reject"
  /\ locals.seeds < Len(activeChains) /\ locals.tries < MaxRejectionTries
  /\ \E ok \in BOOLEAN :
       /\ locals.seeds = 0 => ok
       /\ locals' = [locals EXCEPT !.tries = @ + 1,
                                   !.seeds = IF ok THEN @ + 1 ELSE @]
  /\ pc' = "reject"
  /\ UNCHANGED <<inputs, entry, activeChains, partitionOut, packingOut, others>>

WalletRejectEnd ==
  /\ entry = "wallet" /\ pc = "reject"
  /\ ~(locals.seeds < Len(activeChains) /\ locals.tries < MaxRejectionTries)
  /\ pc' = "fill"
  /\ UNCHANGED <<inputs, entry, activeChains, partitionOut, packingOut, locals, others>>

\* utils/voronoiWallet.ts: one iteration of while (seeds.length < nChains) seeds.push(...)
WalletFill ==
  /\ entry = "wallet" /\ pc = "fill"
  /\ locals.seeds < Len(activeChains)
  /\ locals' = [locals EXCEPT !.seeds = @ + 1]
  /\ pc' = "fill"
  /\ UNCHANGED <<inputs, entry, activeChains, partitionOut, packingOut, others>>

WalletCells ==
  /\ entry = "wallet" /\ pc = "fill"
  /\ ~(locals.seeds < Len(activeChains))
  /\ ScoreTrial
  /\ UNCHANGED <<inputs, entry, activeChains, smartWeights, tokenShards, chainLabels,
                 packingOut, others>>

\* utils/voronoiWallet.ts: for (let k = 0; k < tokenEntries.length; k++) { let pt = null;
WalletToken ==
  /\ entry = "wallet" /\ pc = "tokens"
  /\ locals.k < Len(activeChains[locals.i + 1].tokens)
  /\ locals' = [locals EXCEPT !.pt = NoPoint, !.t = 0]
  /\ pc' = "sample"
  /\ UNCHANGED <<inputs, entry, activeChains, partitionOut, packingOut, others>>

\* utils/voronoiWallet.ts: one iteration of for (let t = 0; t < 5000; t++)
WalletSample ==
  /\ entry = "wallet" /\ pc = "sample"
  /\ locals.t < MaxCoinTries
  /\ \E cand \in Candidates :
       IF cand \in locals.inside
       THEN /\ locals' = [locals EXCEPT !.cand = cand, !.pt = cand]
            /\ pc' = "fallback"
       ELSE /\ locals' = [locals EXCEPT !.cand = cand, !.t = @ + 1]
            /\ pc' = "sample"
  /\ UNCHANGED <<inputs, entry, activeChains, partitionOut, packingOut, others>>

WalletSampleEnd ==
  /\ entry = "wallet" /\ pc = "sample"
  /\ ~(locals.t < MaxCoinTries)
  /\ pc' = "fallback"
  /\ UNCHANGED <<inputs, entry, activeChains, partitionOut, packingOut, locals, others>>

\* utils/voronoiWallet.ts: if (!pt) { ...; one iteration of while (true) { cand = ...;
\* if (pointInConvex(cell, cand)) { pt = cand; break; } }
WalletBox ==
  /\ entry = "wallet" /\ pc = "fallback"
  /\ locals.pt = NoPoint
  /\ \E cand \in Candidates :
       locals' = [locals EXCEPT !.cand = cand,
                                !.pt = IF cand \in locals.inside THEN cand ELSE NoPoint]
  /\ pc' = "fallback"
  /\ UNCHANGED <<inputs, entry, activeChains, partitionOut, packingOut, others>>

\* utils/voronoiWallet.ts: coinPts.push(pt)
WalletPush ==
  /\ entry = "wallet" /\ pc = "fallback"
  /\ locals.pt # NoPoint
  /\ locals' = [locals EXCEPT !.k = @ + 1]
  /\ pc' = "tokens"
  /\ UNCHANGED <<inputs, entry, activeChains, partitionOut, packingOut, others>>

\* utils/voronoiWallet.ts: after the seeds of the group: the item cells, in seed order
WalletShards ==
  /\ entry = "wallet" /\ pc = "tokens"
  /\ ~(locals.k < Len(activeChains[locals.i + 1].tokens))
  /\ LET chainName == activeChains[locals.i + 1].chain
         tokenEntries == activeChains[locals.i + 1].tokens
     IN  \E areas \in [1..Len(tokenEntries) -> {Dropped} \cup (1..MaxArea)] :
           tokenShards' = tokenShards \o walletChainShards(chainName, tokenEntries, areas)
  /\ locals' = [locals EXCEPT !.i = @ + 1]
  /\ pc' = "chains"
  /\ UNCHANGED <<inputs, entry, activeChains, bestCells, smartWeights, chainLabels,
                 packingOut, others>>

\* the velocities packCircles starts from
packStart(nodesIn) ==
  [nodes |-> nodesIn,
   vx |-> [i \in 1..Len(nodesIn) |-> 0],
   vy |-> [i \in 1..Len(nodesIn) |-> 0]]

\* CircleDiagram: the layout up to the call of the primary packCircles
StartPack ==
  /\ pc = "idle"
  /\ entry' = "circle"
  /\ LET active == packingActiveChains(walletData)
     IN  /\ activeChains' = active
         /\ IF Len(active) = 0
            THEN /\ locals' = NewLocals
                 /\ weightsForSizing' = <<>>
                 /\ pc' = "done"
            ELSE LET raw == circleRaw(active, walletUsd)
                     weights == circleWeightsForSizing(raw)
                     built == sortBuilt(circleBuilt(active, raw, weights, circleSeed(active)))
                 IN  /\ locals' = [NewLocals EXCEPT !.st = packStart(built), !.nodesIn = built]
                     /\ weightsForSizing' =
                          [i \in 1..Len(raw) |->
                             [chain |-> raw[i].chain, symbol |-> raw[i].symbol,
                              hasPrice |-> raw[i].hasPrice, usd |-> raw[i].usd,
                              w |-> weights[i]]]
                     /\ pc' = "primary"
  /\ UNCHANGED <<inputs, partitionOut, nodes, pointerTargetsByChain, others>>

\* packCircles: one iteration of for (let it = 0; it < iterations; it++)
PackIteration(at, opts) ==
  /\ entry = "circle" /\ pc = at
  /\ locals.it < opts.iterations
  /\ locals' = [locals EXCEPT !.it = @ + 1, !.st = packStep(@, opts)]
  /\ pc' = at
  /\ UNCHANGED <<inputs, entry, activeChains, partitionOut, packingOut, others>>

\* CircleDiagram: the correction between the two relaxations
PackCorrectAfter(opts) ==
  /\ entry = "circle" /\ pc = "primary"
  /\ ~(locals.it < opts.iterations)
  /\ locals' = [locals EXCEPT !.it = 0, !.st = packStart(pushToOutline(locals.st.nodes)),
                               !.nodesIn = pushToOutline(locals.st.nodes)]
  /\ pc' = "secondary"
  /\ UNCHANGED <<inputs, entry, activeChains, partitionOut, packingOut, others>>

PackCorrect == PackCorrectAfter(primaryOpts)

\* CircleDiagram: the pointer targets and the return
PackReturnAfter(opts) ==
  /\ entry = "circle" /\ pc = "secondary"
  /\ ~(locals.it < opts.iterations)
  /\ nodes' = locals.st.nodes
  /\ pointerTargetsByChain' = pointerTargets(activeChains, locals.st.nodes)
  /\ pc' = "done"
  /\ UNCHANGED <<inputs, entry, activeChains, partitionOut, weightsForSizing, locals, others>>

PackReturn == PackReturnAfter(secondaryOpts)

\* SpecLoops: the groups of Spec with amounts that pass or fail the filter
InitLoops ==
  /\ \E amt \in [Slots -> {Num(0), Num(2)}] :
       walletData = walletDataOf(ChainNames, TokenNames, amt)
  /\ walletUsd \in [Slots -> {Undefined}]
  /\ Idle
  /\ Whole

NextLoops ==
  \/ StartPartition("wheel")
  \/ WheelTrial
  \/ TrialsEnd("wheel")
  \/ NextChain("wheel")
  \/ WheelToken
  \/ WheelSample
  \/ WheelSampleEnd
  \/ WheelPush
  \/ WheelShards
  \/ Return("wheel")
  \/ StartPartition("wallet")
  \/ WalletTrial
  \/ WalletReject
  \/ WalletRejectEnd
  \/ WalletFill
  \/ WalletCells
  \/ TrialsEnd("wallet")
  \/ NextChain("wallet")
  \/ WalletToken
  \/ WalletSample
  \/ WalletSampleEnd
  \/ WalletBox
  \/ WalletPush
  \/ WalletShards
  \/ Return("wallet")
  \/ StartPack
  \/ PackIteration("primary", primaryOpts)
  \/ PackCorrect
  \/ PackIteration("secondary", secondaryOpts)
  \/ PackReturn

SpecLoops == InitLoops /\ [][NextLoops]_vars

\* the call is a running computation: it takes its next step as long as it has one
FairLoops == SpecLoops /\ WF_vars(NextLoops)

\* SpecTrials: the seed search alone. What the library and the clip leave of trial s
\* is a function of the trial's seeds, hence of s: geom.trials lists it.
TrialOutcomes(active) ==
  {o \in [cells : SUBSET chainNamesOf(active), coverage : CoverageValues] :
     o.cells = {} => o.coverage = 0}

InitTrials ==
  /\ \E amt \in [Slots -> {Num(0), Num(2)}] :
       walletData = walletDataOf(ChainNames, TokenNames, amt)
  /\ walletUsd \in [Slots -> {Undefined}]
  /\ Idle
  /\ locals = <<>>
  /\ \E trials \in [1..maxSeedSearch -> TrialOutcomes(partitionActiveChains(walletData))] :
       geom = [trials |-> trials]
  /\ invocations = <<>>
  /\ clipIn = <<>>
  /\ clipOut = <<>>
  /\ generators = <<>>
  /\ centroidOut = <<>>
  /\ app = <<>>

NextTrials ==
  \/ StartPartition("wheel")
  \/ WheelTrial
  \/ TrialsEnd("wheel")
  \/ StartPartition("wallet")
  \/ WalletTrial
  \/ WalletReject
  \/ WalletRejectEnd
  \/ WalletFill
  \/ WalletCells
  \/ TrialsEnd("wallet")

SpecTrials == InitTrials /\ [][NextTrials]_vars

----------------------------------------------------------------------------
(* The packing followed iteration by iteration with the iteration counts of  *)
(* the source, on one group of unpriced tokens of equal amount: a few, or a  *)
(* crowd of MaxCrowd.                                                        *)

\* iterations: 420 and iterations: 120
SourcePrimaryIterations == 420
SourceSecondaryIterations == 120
MaxCrowd == 16
CrowdSizes == {1, 2, 3, MaxCrowd}

sourcePrimaryOpts == [primaryOpts EXCEPT !.iterations = SourcePrimaryIterations]
sourceSecondaryOpts == [secondaryOpts EXCEPT !.iterations = SourceSecondaryIterations]

CrowdTokenNames ==
  <<"ETH", "USDC", "WBTC", "DAI", "LINK", "UNI", "AAVE", "MKR", "SNX", "CRV", "COMP", "LDO",
    "BAL", "YFI", "SUSHI", "GRT", "ENS", "RPL", "FXS", "CVX">>

\* SpecPack: walletData = { Ethereum: { ETH: 2, USDC: 2, ... } }, no price known
InitPack ==
  /\ \E n \in CrowdSizes :
       walletData = <<[chain |-> "Ethereum",
                       tokens |-> [k \in 1..n |-> [sym |-> CrowdTokenNames[k], amt |-> Num(2)]]]>>
  /\ walletUsd = <<>>
  /\ Idle
  /\ Whole

NextPack ==
  \/ StartPack
  \/ PackIteration("primary", sourcePrimaryOpts)
  \/ PackCorrectAfter(sourcePrimaryOpts)
  \/ PackIteration("secondary", sourceSecondaryOpts)
  \/ PackReturnAfter(sourceSecondaryOpts)

SpecPack == InitPack /\ [][NextPack]_vars

\* SpecAnchors: up to four groups, the packing followed from its start
AnchorChainNames == <<"Ethereum", "Base", "Solana", "Arbitrum">>
AnchorTokenNames == <<<<"ETH", "USDC">>, <<"DAI">>, <<"SOL">>, <<"ARB">>>>
AnchorSlots ==
  {<<"Ethereum", "ETH">>, <<"Ethereum", "USDC">>, <<"Base", "DAI">>, <<"Solana", "SOL">>,
   <<"Arbitrum", "ARB">>}

InitAnchors ==
  /\ \E amt \in [AnchorSlots -> {Num(0), Num(2)}] :
       walletData = walletDataOf(AnchorChainNames, AnchorTokenNames, amt)
  /\ walletUsd = <<>>
  /\ Idle
  /\ Whole

NextAnchors ==
  \/ StartPack
  \/ PackIteration("primary", primaryOpts)
  \/ PackCorrect
  \/ PackIteration("secondary", secondaryOpts)
  \/ PackReturn

SpecAnchors == InitAnchors /\ [][NextAnchors]_vars

----------------------------------------------------------------------------
(* Repeated invocations of one entry point on one input. geom holds what the *)
(* geometry libraries (d3-delaunay, d3-polygon) derive from that input, the  *)
(* same for every invocation: env, the cells of the partition; cells, the    *)
(* groups that own a cell; inside, the strips of a bounding box that lie     *)
(* inside the cell; outside, the items whose spiral point misses the cell.   *)
(* A point is <<kind, a, b>>.                                                *)

\* tries < 1000 (utils/voronoi.ts samplePointInPolygon)
MaxPolygonTries == 2
seedBase == 0
ChainSeedOffset == 10000

Runs == {1, 2}

\* the strip of the bounding box that holds minx + (maxx - minx) * value
stripOf(u) == Scaled(u, NumCandidates)

\* AssetWheel.tsx: the seed of one item from the generator in state t, and the state
\* after it: while (!pt && safety++ < 1000) { cand = ...; if (pointInConvex(cell, cand))
\* pt = cand; }  if (!pt) { pt = the centroid moved by jitterDist at jitterAngle }
RECURSIVE wheelSamplePoint(_, _, _)
wheelSamplePoint(t, inside, safety) ==
  LET t1 == rngNext(t)
      t2 == rngNext(t1)
  IN  IF safety < MaxSafety
      THEN IF stripOf(rngValue(t1)) \in inside
           THEN [pt |-> <<"box", Scaled(rngValue(t1), 1000), Scaled(rngValue(t2), 1000)>>,
                 t |-> t2]
           ELSE wheelSamplePoint(t2, inside, safety + 1)
      ELSE [pt |-> <<"jitter", Scaled(rngValue(t1), 360), 5 + Scaled(rngValue(t2), 20)>>,
            t |-> t2]

\* AssetWheel.tsx: coinPts of a group of n items
RECURSIVE wheelCoinPts(_, _, _)
wheelCoinPts(t, inside, n) ==
  IF n = 0 THEN <<>>
  ELSE LET first == wheelSamplePoint(t, inside, 0)
       IN  <<first.pt>> \o wheelCoinPts(first.t, inside, n - 1)

\* AssetWheel.tsx buildVoronoiWalletDiagram, with the item seeds its cells are built on
wheelLayout(wd, usd, g) ==
  LET active == partitionActiveChains(wd)
      nChains == Len(active)
  IN  IF nChains = 0 THEN [tokenShards |-> <<>>, chainLabels |-> <<>>, coinPts |-> <<>>]
      ELSE [tokenShards |->
              Flatten([i \in 1..nChains |->
                         IF g.env[i].has
                         THEN wheelChainShards(active[i].chain, active[i].tokens, usd,
                                               g.env[i].areas)
                         ELSE <<>>]),
            chainLabels |-> labelsOf(active, g.env),
            coinPts |->
              [i \in 1..nChains |->
                 IF g.env[i].has
                 THEN wheelCoinPts(mulberry32(seedBase + ChainSeedOffset + (i - 1)),
                                   g.inside, Len(active[i].tokens))
                 ELSE <<>>]]

\* CircleDiagram: the layout useMemo
circleLayout(wd, usd) ==
  LET active == packingActiveChains(wd)
  IN  IF Len(active) = 0 THEN [nodes |-> <<>>, pointerTargetsByChain |-> <<>>]
      ELSE LET raw == circleRaw(active, usd)
               weights == circleWeightsForSizing(raw)
               built == sortBuilt(circleBuilt(active, raw, weights, circleSeed(active)))
               packed == packCircles(pushToOutline(packCircles(built, primaryOpts)),
                                     secondaryOpts)
           IN  [nodes |-> packed, pointerTargetsByChain |-> pointerTargets(active, packed)]

\* utils/voronoi.ts: the idx-th point of the spiral around the centroid
spiralPoint(idx) == <<"spiral", idx, idx>>

\* utils/voronoi.ts samplePointInPolygon: draws[t] is the strip that holds the
\* candidate of Math.random() of try t; the first one inside is returned, else the centroid
samplePointInPolygon(inside, draws) ==
  LET hits == {t \in 1..Len(draws) : draws[t] \in inside}
  IN  IF hits = {} THEN <<"centroid", 0, 0>>
      ELSE <<"box", draws[CHOOSE t \in hits : \A u \in hits : t <= u], 0>>

\* utils/voronoi.ts generateNestedVoronoi: the token seeds of each chain cell
generateNestedVoronoi(chains, g, draws) ==
  [i \in 1..Len(chains) |->
     IF i \in g.cells
     THEN [k \in 1..Len(chains[i].tokens) |->
             IF <<i, k>> \in g.outside
             THEN samplePointInPolygon(g.inside, draws[<<i, k>>])
             ELSE spiralPoint(k - 1)]
     ELSE <<>>]

Invoked(r, e, out) ==
  /\ r \notin DOMAIN invocations
  /\ geom.for = e
  /\ invocations' = (r :> out) @@ invocations
  /\ entry' = e
  /\ pc' = IF DOMAIN invocations \cup {r} = Runs THEN "done" ELSE "idle"
  /\ UNCHANGED <<inputs, activeChains, partitionOut, packingOut, locals, geom, clipIn, clipOut, generators, centroidOut, app>>

InvokeWheel(r) == Invoked(r, "wheel", wheelLayout(walletData, walletUsd, geom))

InvokeCircle(r) == Invoked(r, "circle", circleLayout(walletData, walletUsd))

InvokeNested(r) ==
  \E draws \in [geom.outside -> [1..MaxPolygonTries -> Candidates]] :
    Invoked(r, "nested", [tokenSeeds |-> generateNestedVoronoi(walletData, geom, draws)])

NoGeometry == [env |-> <<>>, cells |-> {}, inside |-> {}, outside |-> {}]

\* SpecDet: the groups of Spec; one entry point is invoked twice
InitDet ==
  /\ \/ /\ \E amt \in [Slots -> {Num(0), Num(2)}] :
             walletData = walletDataOf(ChainNames, TokenNames, amt)
        /\ \E u \in {Undefined, Num(40)} : walletUsd = [sl \in Slots |-> u]
        /\ \/ \E env \in PartitionEnvs(partitionActiveChains(walletData),
                                      Len(partitionActiveChains(walletData))),
                 inside \in SUBSET Candidates :
                geom = [NoGeometry EXCEPT !.env = env, !.inside = inside] @@ [for |-> "wheel"]
           \/ geom = NoGeometry @@ [for |-> "circle"]
     \/ /\ walletData = walletDataOf(ChainNames, TokenNames, [sl \in Slots |-> Num(2)])
        /\ walletUsd = [sl \in Slots |-> Undefined]
        /\ \E cells \in SUBSET (1..Len(ChainNames)),
              inside \in SUBSET Candidates,
              outside \in SUBSET {<<i, k>> \in (1..2) \X (1..2) :
                                    i <= Len(TokenNames) /\ k <= Len(TokenNames[i])} :
             /\ \A ik \in outside : ik[1] \in cells
             /\ geom = [NoGeometry EXCEPT !.cells = cells, !.inside = inside,
                                          !.outside = outside] @@ [for |-> "nested"]
  /\ Idle
  /\ locals = <<>>
  /\ invocations = <<>>
  /\ clipIn = <<>>
  /\ clipOut = <<>>
  /\ generators = <<>>
  /\ centroidOut = <<>>
  /\ app = <<>>

NextDet == \E r \in Runs : InvokeWheel(r) \/ InvokeCircle(r) \/ InvokeNested(r)

SpecDet == InitDet /\ [][NextDet]_vars

----------------------------------------------------------------------------
(* The random draws of two invocations between which the balances change.    *)
(* An invocation records its active groups and, group by group, the draws    *)
(* that place the group's items: the item seeds of the wheel, the jitter of  *)
(* the circles.                                                              *)

\* the active groups with their numbers of items
groupSizes(active) == [i \in 1..Len(active) |-> [chain |-> active[i].chain,
                                                  n |-> Len(active[i].tokens)]]

\* AssetWheel.tsx: const rng = mulberry32(seedBase + 10000 + i) and the coinPts drawn
\* from it, for each group i that has a cell
wheelItemDraws(wd, g) ==
  LET active == partitionActiveChains(wd)
  IN  [i \in 1..Len(active) |->
         wheelCoinPts(mulberry32(seedBase + ChainSeedOffset + (i - 1)), g.inside,
                      Len(active[i].tokens))]

\* CircleDiagram: (jitter, jitter2) of the circles of each group, in input order
circleItemDraws(wd, usd) ==
  LET active == packingActiveChains(wd)
      raw == circleRaw(active, usd)
      built == circleBuilt(active, raw, circleWeightsForSizing(raw), circleSeed(active))
  IN  [i \in 1..Len(active) |->
         LET own == SelectSeq(built, LAMBDA b : b.chain = active[i].chain)
         IN  [k \in 1..Len(own) |-> <<own[k].x - own[k].ax, own[k].y - own[k].ay>>]]

DrawWheel(r) ==
  Invoked(r, "wheel", [groups |-> groupSizes(partitionActiveChains(walletData)),
                       draws |-> wheelItemDraws(walletData, geom)])

DrawCircle(r) ==
  Invoked(r, "circle", [groups |-> groupSizes(packingActiveChains(walletData)),
                        draws |-> circleItemDraws(walletData, walletUsd)])

\* the balances are fetched again between two invocations: walletData changes
Refetch ==
  /\ pc = "idle"
  /\ \E amt \in [Slots -> {Num(0), Num(2)}] :
       /\ walletData' = walletDataOf(ChainNames, TokenNames, amt)
       /\ walletData' # walletData
  /\ UNCHANGED <<walletUsd, entry, pc, activeChains, partitionOut, packingOut, locals, others>>

\* SpecStreams: the groups of Spec, one entry point invoked twice
InitStreams ==
  /\ \E amt \in [Slots -> {Num(0), Num(2)}] :
       walletData = walletDataOf(ChainNames, TokenNames, amt)
  /\ walletUsd = [sl \in Slots |-> Undefined]
  /\ \/ \E inside \in SUBSET Candidates :
          geom = [NoGeometry EXCEPT !.inside = inside] @@ [for |-> "wheel"]
     \/ geom = NoGeometry @@ [for |-> "circle"]
  /\ Idle
  /\ locals = <<>>
  /\ invocations = <<>>
  /\ clipIn = <<>>
  /\ clipOut = <<>>
  /\ generators = <<>>
  /\ centroidOut = <<>>
  /\ app = <<>>

NextStreams == Refetch \/ \E r \in Runs : DrawWheel(r) \/ DrawCircle(r)

SpecStreams == InitStreams /\ [][NextStreams]_vars

----------------------------------------------------------------------------
(* The clip of an item cell to its group cell (AssetWheel.tsx), in exact     *)
(* arithmetic. A point is <<X, Y, W>> with W > 0: the point (X/W, Y/W). A    *)
(* vector and a scalar carry their denominator in the same way. Polygons are *)
(* drawn on a grid whose unit is so small that the tolerance 1e-12 of the    *)
(* line intersection is DenomTol squared units.                              *)

GridMax == 2
DenomTol == 2

\* the tolerance 1e-9 of polygonCentroid, in squared units of the grid
AreaTol == 1000 * DenomTol

Abs(x) == IF x < 0 THEN 0 - x ELSE x

RECURSIVE Gcd(_, _)
Gcd(a, b) == IF b = 0 THEN a ELSE Gcd(b, a % b)

\* the same point with the least W > 0
reduced(p) ==
  LET sgn == IF p[3] < 0 THEN 0 - 1 ELSE 1
      g == Gcd(Gcd(Abs(p[1]), Abs(p[2])), Abs(p[3]))
  IN  <<(sgn * p[1]) \div g, (sgn * p[2]) \div g, (sgn * p[3]) \div g>>

\* the vector p - q
minus(p, q) == <<p[1] * q[3] - q[1] * p[3], p[2] * q[3] - q[2] * p[3], p[3] * q[3]>>

\* cross(ax, ay, bx, by) = ax * by - ay * bx, as <<numerator, denominator>>
cross(u, v) == <<u[1] * v[2] - u[2] * v[1], u[3] * v[3]>>

\* isInsideClip(p, a, b)
isInsideClip(p, a, b) == cross(minus(b, a), minus(p, a))[1] >= 0

\* lineIntersection(p, q, a, b)
lineIntersection(p, q, a, b) ==
  LET r1 == minus(q, p)
      r2 == minus(b, a)
      denom == cross(r1, r2)
      num == cross(minus(a, p), r2)
  IN  IF Abs(denom[1]) < DenomTol * denom[2] THEN q
      ELSE \* t = num / denom; [px + t * r1x, py + t * r1y]
           reduced(<<p[1] * num[2] * denom[1] * r1[3] + p[3] * num[1] * denom[2] * r1[1],
                     p[2] * num[2] * denom[1] * r1[3] + p[3] * num[1] * denom[2] * r1[2],
                     p[3] * num[2] * denom[1] * r1[3]>>)

\* twice polygonArea(poly), times the product of the W of its vertices
polygonArea(poly) ==
  LET n == Len(poly)
      RECURSIVE prodW(_)
      prodW(i) == IF i = 0 THEN 1 ELSE poly[i][3] * prodW(i - 1)
      next(i) == (i % n) + 1
  IN  IF n < 3 THEN 0
      ELSE SumSeq([i \in 1..n |->
                     (poly[i][1] * poly[next(i)][2] - poly[next(i)][1] * poly[i][2])
                       * (prodW(n) \div (poly[i][3] * poly[next(i)][3]))])

\* ensureCCW(poly)
ensureCCW(poly) ==
  IF polygonArea(poly) < 0 THEN [i \in 1..Len(poly) |-> poly[Len(poly) + 1 - i]] ELSE poly

\* the inner loop of clipConvexPolygon from subject index j on: the output for edge a -> b
RECURSIVE clipEdge(_, _, _, _)
clipEdge(subject, a, b, j) ==
  IF j > Len(subject) THEN <<>>
  ELSE LET p == subject[j]
           q == subject[(j % Len(subject)) + 1]
           pin == isInsideClip(p, a, b)
           qin == isInsideClip(q, a, b)
           pushed == IF pin /\ qin THEN <<q>>
                     ELSE IF pin /\ ~qin THEN <<lineIntersection(p, q, a, b)>>
                     ELSE IF ~pin /\ qin THEN <<lineIntersection(p, q, a, b), q>>
                     ELSE <<>>
       IN  pushed \o clipEdge(subject, a, b, j + 1)

\* the outer loop of clipConvexPolygon from clipper index i on
RECURSIVE clipFrom(_, _, _)
clipFrom(subject, clipper, i) ==
  IF i > Len(clipper) THEN subject
  ELSE clipFrom(clipEdge(subject, clipper[i], clipper[(i % Len(clipper)) + 1], 1),
                clipper, i + 1)

\* clipConvexPolygon(subjectIn, clipperIn)
clipConvexPolygon(subjectIn, clipperIn) == clipFrom(subjectIn, ensureCCW(clipperIn), 1)

\* utils/geom.ts clipConvexPolygon: the same edge loop, left with [] as soon as fewer
\* than 3 vertices remain
RECURSIVE geomClipFrom(_, _, _)
geomClipFrom(subject, clipper, i) ==
  IF i > Len(clipper) THEN subject
  ELSE LET output == clipEdge(subject, clipper[i], clipper[(i % Len(clipper)) + 1], 1)
       IN  IF Len(output) < 3 THEN <<>> ELSE geomClipFrom(output, clipper, i + 1)

geomClipConvexPolygon(subjectIn, clipperIn) ==
  IF Len(subjectIn) < 3 THEN <<>> ELSE geomClipFrom(subjectIn, ensureCCW(clipperIn), 1)

toPtArrayKeepShort(poly) == poly

\* AssetWheel.tsx toPtArray: if (!poly || poly.length < 3) return []; a copy otherwise
\* (a missing cell, null, is the empty list here)
toPtArray(poly) == IF Len(poly) < 3 THEN <<>> ELSE poly

\* utils/voronoiWallet.ts toPtArray: the same, then the closing point is removed if it
\* repeats the first (points of the grid are further apart than 1e-9)
walletToPtArray(poly) ==
  IF Len(poly) < 3 THEN <<>>
  ELSE IF poly[1] = poly[Len(poly)] THEN SubSeq(poly, 1, Len(poly) - 1)
  ELSE poly

\* a rational n / d with d > 0, in lowest terms
ratOf(n, d) ==
  LET sgn == IF d < 0 THEN 0 - 1 ELSE 1
      g == Gcd(Abs(n), Abs(d))
  IN  <<(sgn * n) \div g, (sgn * d) \div g>>

ratAdd(a, b) == ratOf(a[1] * b[2] + b[1] * a[2], a[2] * b[2])
ratMul(a, b) == ratOf(a[1] * b[1], a[2] * b[2])

RECURSIVE ratSum(_)
ratSum(rs) == IF rs = <<>> THEN <<0, 1>> ELSE ratAdd(Head(rs), ratSum(Tail(rs)))

\* a finite JS number of value n / d
Ratio(r) == [kind |-> "num", v |-> r]

\* a / b of JS numbers: 0 / 0 is NaN, a nonzero number over 0 is an infinity
jsDivide(a, b) ==
  IF b[1] = 0
  THEN IF a[1] = 0 THEN NaN ELSE IF a[1] > 0 THEN PosInf ELSE NegInf
  ELSE Ratio(ratMul(a, ratOf(b[2], b[1])))

\* x1 * y2 - x2 * y1 of two vertices
vertexCross(p, q) == ratOf(p[1] * q[2] - q[1] * p[2], p[3] * q[3])

\* polygonArea(poly) as a rational
polygonAreaRatio(poly) ==
  LET n == Len(poly)
  IN  IF n < 3 THEN <<0, 1>>
      ELSE ratMul(<<1, 2>>, ratSum([i \in 1..n |-> vertexCross(poly[i], poly[(i % n) + 1])]))

\* the sums cx and cy of the area-weighted vertex formula
centroidSums(poly) ==
  LET n == Len(poly)
      term(i, c) ==
        ratMul(ratAdd(ratOf(poly[i][c], poly[i][3]),
                      ratOf(poly[(i % n) + 1][c], poly[(i % n) + 1][3])),
               vertexCross(poly[i], poly[(i % n) + 1]))
  IN  <<ratSum([i \in 1..n |-> term(i, 1)]), ratSum([i \in 1..n |-> term(i, 2)])>>

\* utils/geom.ts polygonCentroid: the vertex mean where |a| < 1e-9
geomPolygonCentroid(poly) ==
  LET n == Len(poly)
      a == polygonAreaRatio(poly)
      sums == centroidSums(poly)
      sx == ratSum([i \in 1..n |-> ratOf(poly[i][1], poly[i][3])])
      sy == ratSum([i \in 1..n |-> ratOf(poly[i][2], poly[i][3])])
  IN  IF n = 0 THEN <<Ratio(<<0, 1>>), Ratio(<<0, 1>>)>>
      ELSE IF n = 1 THEN <<Ratio(ratOf(poly[1][1], poly[1][3])),
                           Ratio(ratOf(poly[1][2], poly[1][3]))>>
      ELSE IF Abs(a[1]) < AreaTol * a[2]
      THEN <<jsDivide(sx, <<n, 1>>), jsDivide(sy, <<n, 1>>)>>
      ELSE <<jsDivide(sums[1], ratMul(<<6, 1>>, a)), jsDivide(sums[2], ratMul(<<6, 1>>, a))>>

\* AssetWheel.tsx polygonCentroid: [cx / (6 * a), cy / (6 * a)]
polygonCentroid(poly) ==
  LET a == polygonAreaRatio(poly)
      sums == centroidSums(poly)
  IN  IF Len(poly) = 0 THEN <<Ratio(<<0, 1>>), Ratio(<<0, 1>>)>>
      ELSE <<jsDivide(sums[1], ratMul(<<6, 1>>, a)), jsDivide(sums[2], ratMul(<<6, 1>>, a))>>

\* AssetWheel.tsx: const raw = toPtArray(coinVor.cellPolygon(k));
\* const clipped = clipConvexPolygon(raw, cell); if (clipped.length > 2) shardCells.push(
\* { poly: clipped, centroid: polygonCentroid(clipped), ... })
ClipItemCell ==
  /\ pc = "idle"
  /\ clipIn # <<>>
  /\ clipOut' = clipConvexPolygon(toPtArray(clipIn.subject), clipIn.clipper)
  /\ centroidOut' = IF Len(clipOut') > 2 THEN polygonCentroid(clipOut') ELSE <<>>
  /\ entry' = "wheel"
  /\ pc' = "done"
  /\ UNCHANGED <<inputs, activeChains, partitionOut, packingOut, locals, geom, invocations,
                 clipIn, generators, app>>

\* utils/voronoiWallet.ts: const raw = toPtArray(coinVor.cellPolygon(k));
\* if (raw.length < 3) continue; const clipped = clipConvexPolygon(raw, cell);
\* (no polygon where the cell is skipped before the call)
ClipWalletCell ==
  /\ pc = "idle"
  /\ clipIn # <<>>
  /\ LET raw == walletToPtArray(clipIn.subject)
     IN  clipOut' = IF Len(raw) < 3 THEN <<>>
                    ELSE geomClipConvexPolygon(raw, clipIn.clipper)
  /\ centroidOut' = IF Len(clipOut') < 3 THEN <<>> ELSE geomPolygonCentroid(clipOut')
  /\ entry' = "wallet"
  /\ pc' = "done"
  /\ UNCHANGED <<inputs, activeChains, partitionOut, packingOut, locals, geom, invocations,
                 clipIn, generators, app>>

GridPoints == {<<x, y, 1>> : x \in 0..GridMax, y \in 0..GridMax}

\* the triangles of the grid, each from its least vertex on, in both orientations
Triangles ==
  {<<a, b, c>> : a \in GridPoints, b \in GridPoints, c \in GridPoints} \ 
  {t \in {<<a, b, c>> : a \in GridPoints, b \in GridPoints, c \in GridPoints} :
     \/ polygonArea(t) = 0
     \/ \E i \in 2..3 : \/ t[i][1] < t[1][1]
                        \/ (t[i][1] = t[1][1] /\ t[i][2] < t[1][2])}

\* what cellPolygon(k) hands over: a triangle, or one of the degenerate cells: none,
\* two points, a closed ring of two points
Segments == {<<a, b>> : a \in GridPoints, b \in GridPoints} \ {<<a, a>> : a \in GridPoints}
RawCells ==
  Triangles \cup Segments \cup {<<s[1], s[2], s[1]>> : s \in Segments} \cup {<<>>}

\* SpecClip: the raw Voronoi cell of an item seed (convex, either orientation) and the
\* group cell it is clipped to (convex, counter-clockwise since ensureCCW at its creation)
InitClip ==
  /\ walletData = <<>>
  /\ walletUsd = <<>>
  /\ Idle
  /\ locals = <<>>
  /\ geom = <<>>
  /\ invocations = <<>>
  /\ \E raw \in RawCells, cell \in {t \in Triangles : ensureCCW(t) = t} :
       clipIn = [subject |-> raw, clipper |-> ensureCCW(cell)]
  /\ clipOut = <<>>
  /\ generators = <<>>
  /\ centroidOut = <<>>
  /\ app = <<>>

NextClip == ClipItemCell \/ ClipWalletCell

SpecClip == InitClip /\ [][NextClip]_vars

----------------------------------------------------------------------------
(* The intersection of a subject edge with a clip edge, as each of the three *)
(* clips computes it. The returned point is a pair of JS numbers.            *)

ratSub(a, b) == ratAdd(a, <<0 - b[1], b[2]>>)

\* the coordinate c of a point as a rational
coordinate(p, c) == ratOf(p[c], p[3])

\* a point <<X, Y, W>> as a pair of finite JS numbers
jsPoint(p) == <<Ratio(coordinate(p, 1)), Ratio(coordinate(p, 2))>>

\* r * x for a finite r and a JS number x: 0 * Infinity is NaN
jsTimes(r, x) ==
  IF x.kind = "num" THEN Ratio(ratMul(r, x.v))
  ELSE IF x.kind = "NaN" \/ r[1] = 0 THEN NaN
  ELSE IF (r[1] > 0) = (x.v > 0) THEN PosInf ELSE NegInf

\* utils/geom.ts lineIntersection(p, q, a, b)
geomLineIntersection(p, q, a, b) ==
  LET r1 == minus(q, p)
      r2 == minus(b, a)
      denom == cross(r1, r2)
      num == cross(minus(a, p), r2)
  IN  IF Abs(denom[1]) < DenomTol * denom[2] THEN q
      ELSE reduced(<<p[1] * num[2] * denom[1] * r1[3] + p[3] * num[1] * denom[2] * r1[1],
                     p[2] * num[2] * denom[1] * r1[3] + p[3] * num[1] * denom[2] * r1[2],
                     p[3] * num[2] * denom[1] * r1[3]>>)

\* utils/voronoi.ts computeIntersection(a, b, s, e): n3 = 1.0 / (dc[0] * dp[1] - dc[1] * dp[0])
computeIntersection(a, b, s, e) ==
  LET dc == <<ratSub(coordinate(a, 1), coordinate(b, 1)),
              ratSub(coordinate(a, 2), coordinate(b, 2))>>
      dp == <<ratSub(coordinate(s, 1), coordinate(e, 1)),
              ratSub(coordinate(s, 2), coordinate(e, 2))>>
      n1 == ratSub(ratMul(coordinate(a, 1), coordinate(b, 2)),
                   ratMul(coordinate(a, 2), coordinate(b, 1)))
      n2 == ratSub(ratMul(coordinate(s, 1), coordinate(e, 2)),
                   ratMul(coordinate(s, 2), coordinate(e, 1)))
      n3 == jsDivide(<<1, 1>>, ratSub(ratMul(dc[1], dp[2]), ratMul(dc[2], dp[1])))
  IN  <<jsTimes(ratSub(ratMul(n1, dp[1]), ratMul(n2, dc[1])), n3),
        jsTimes(ratSub(ratMul(n1, dp[2]), ratMul(n2, dc[2])), n3)>>

\* an intersection has been computed for the edges of clipIn
Intersected(e, point) ==
  /\ pc = "idle"
  /\ clipIn # <<>>
  /\ clipOut' = [point |-> point]
  /\ entry' = e
  /\ pc' = "done"
  /\ UNCHANGED <<inputs, activeChains, partitionOut, packingOut, locals, geom, invocations,
                 clipIn, generators, centroidOut, app>>

\* AssetWheel.tsx clipConvexPolygon: output.push(lineIntersection(p, q, a, b))
IntersectWheel ==
  Intersected("wheel", jsPoint(lineIntersection(clipIn.subject[1], clipIn.subject[2],
                                                clipIn.clipper[1], clipIn.clipper[2])))

\* utils/geom.ts clipConvexPolygon: output.push(lineIntersection(p, q, a, b))
IntersectGeom ==
  Intersected("wallet", jsPoint(geomLineIntersection(clipIn.subject[1], clipIn.subject[2],
                                                     clipIn.clipper[1], clipIn.clipper[2])))

\* utils/voronoi.ts clipPolygon: outputList.push(computeIntersection(edgeStart, edgeEnd, S, E))
IntersectNested ==
  Intersected("nested", computeIntersection(clipIn.clipper[1], clipIn.clipper[2],
                                            clipIn.subject[1], clipIn.subject[2]))

\* SpecIntersect: a subject edge p -> q and a clip edge a -> b of the grid, one end of the
\* subject edge inside the clip edge and one outside (the clips intersect no other edge)
InitIntersect ==
  /\ walletData = <<>>
  /\ walletUsd = <<>>
  /\ Idle
  /\ locals = <<>>
  /\ geom = <<>>
  /\ invocations = <<>>
  /\ \E p \in GridPoints, q \in GridPoints, a \in GridPoints, b \in GridPoints :
       /\ a # b
       /\ isInsideClip(p, a, b) # isInsideClip(q, a, b)
       /\ clipIn = [subject |-> <<p, q>>, clipper |-> <<a, b>>]
  /\ clipOut = <<>>
  /\ generators = <<>>
  /\ centroidOut = <<>>
  /\ app = <<>>

NextIntersect == IntersectWheel \/ IntersectGeom \/ IntersectNested

SpecIntersect == InitIntersect /\ [][NextIntersect]_vars

----------------------------------------------------------------------------
(* The generators themselves. A seed is a number <<q, n>> = q * 2^32 + n; a  *)
(* number a bitwise operator returns, or the numerator of a returned value,   *)
(* is <<q, hi, lo>> = q * 2^32 + hi * 2^16 + lo. Each call of mulberry32      *)
(* creates a closure with its own t.                                          *)

MaxCalls == 2
GeneratorIds == {1, 2}
SeedValues == {0 - 1, 0, 1} \X {0 - 1, 0, 1, 10000, Half}

\* seed >>> 0 of a seed q * 2^32 + n
seedToUint32(seed) == ToUint32(seed[2])

\* the signed 32-bit number x ^ (x >>> 14) of the bits u
toInt32(u) == <<IF u[1] >= Half \div 2 THEN 0 - 1 ELSE 0, u[1], u[2]>>

\* w >>> 0
toUint32Number(w) == <<0, w[2], w[3]>>

rngReturnSigned(t1) == toInt32(rngValue(t1))

\* ((x ^ (x >>> 14)) >>> 0) / 4294967296: the numerator
rngReturn(t1) == toUint32Number(toInt32(rngValue(t1)))

\* const rng = mulberry32(seed)
CreateGenerator(g, seed) ==
  /\ pc = "idle"
  /\ g \notin DOMAIN generators
  /\ generators' = (g :> [seed |-> seed, t |-> seedToUint32(seed), out |-> <<>>]) @@ generators
  /\ UNCHANGED <<inputs, entry, pc, activeChains, partitionOut, packingOut, locals, geom,
                 invocations, clipIn, clipOut, centroidOut, app>>

\* rng()
CallGenerator(g) ==
  /\ pc = "idle"
  /\ g \in DOMAIN generators
  /\ Len(generators[g].out) < MaxCalls
  /\ LET t1 == rngNext(generators[g].t)
     IN  generators' = [generators EXCEPT ![g].t = t1, ![g].out = Append(@, rngReturn(t1))]
  /\ UNCHANGED <<inputs, entry, pc, activeChains, partitionOut, packingOut, locals, geom,
                 invocations, clipIn, clipOut, centroidOut, app>>

InitRng ==
  /\ walletData = <<>>
  /\ walletUsd = <<>>
  /\ Idle
  /\ Whole

NextRng ==
  \/ \E g \in GeneratorIds, seed \in SeedValues : CreateGenerator(g, seed)
  \/ \E g \in GeneratorIds : CallGenerator(g)

SpecRng == InitRng /\ [][NextRng]_vars

----------------------------------------------------------------------------
(* What the claims speak of, stated without the builders' own operators *)

\* a valid amount: a finite number greater than 0
ValidAmount(a) == a.kind = "num" /\ a.v > 0

\* a priced dollar value: a finite number greater than 0
PricedValue(u) == u.kind = "num" /\ u.v > 0

Done(e) == pc = "done" /\ entry = e

\* the dollar value the input gives token sym of chain c
InputUsd(c, sym) == IF <<c, sym>> \in DOMAIN walletUsd THEN walletUsd[<<c, sym>>] ELSE Undefined

\* the positions of the priced tokens of toks in chain c
PricedPositions(c, toks) == {i \in 1..Len(toks) : PricedValue(InputUsd(c, toks[i].sym))}

\* the priced value that has exactly rank priced values before it in ascending order
\* (ties broken by position), rank counted from 0
PricedValueOfRank(c, toks, rank) ==
  LET P == PricedPositions(c, toks)
      val(i) == InputUsd(c, toks[i].sym).v
      before(i) == {j \in P : val(j) < val(i) \/ (val(j) = val(i) /\ j < i)}
  IN  val(CHOOSE i \in P : Cardinality(before(i)) = rank)

\* twice the median of the priced values of toks in chain c: the middle value of an
\* odd count, the mean of the two middle values of an even count
TwiceMedian(c, toks) ==
  LET n == Cardinality(PricedPositions(c, toks))
  IN  PricedValueOfRank(c, toks, (n - 1) \div 2) + PricedValueOfRank(c, toks, n \div 2)

\* the Weight Model: twice the visual weight of token i of toks in chain c
TwiceModelWeight(c, toks, i) ==
  IF i \in PricedPositions(c, toks) THEN 2 * InputUsd(c, toks[i].sym).v
  ELSE IF PricedPositions(c, toks) = {} THEN 2 * 25
  ELSE IF TwiceMedian(c, toks) < 2 * 5 THEN 2 * 5
  ELSE TwiceMedian(c, toks)

\* the visual weight the partition builder gave the token of a shard
ShardWeight(sh) ==
  LET ws == smartWeights[sh.chainName]
  IN  ws[CHOOSE i \in 1..Len(ws) : ws[i].sym = sh.label].weight

\* the position of token sym among the active tokens of chain c
TokenPosition(c, sym) ==
  LET toks == tokensOfChain(activeChains, c)
  IN  CHOOSE i \in 1..Len(toks) : toks[i].sym = sym

(* C1: every layout call terminates: each call that starts reaches its return. *)
C1_EveryCallTerminates == <>(pc = "done")

(* C10: every vertex of an output item cell (a clip that keeps more than 2 vertices)
   lies inside or on the boundary of its parent group cell: on the inner side of, or
   on, every edge of the cell. *)
C10_Containment ==
  (pc = "done" /\ Len(clipOut) > 2) =>
    \A v \in Range(clipOut) :
      \A i \in 1..Len(clipIn.clipper) :
        LET a == clipIn.clipper[i]
            b == clipIn.clipper[(i % Len(clipIn.clipper)) + 1]
        IN  (b[1] - a[1]) * (v[2] - a[2] * v[3]) - (b[2] - a[2]) * (v[1] - a[1] * v[3]) >= 0

(* C2: two invocations of one entry point with identical input and seed produce
   identical output. *)
C2_Deterministic ==
  \A a, b \in DOMAIN invocations : invocations[a] = invocations[b]

(* C3: in AssetWheel's partition, of two output items of one group the one of
   greater visual weight has a sub-cell at least as large. *)
C3_Monotonicity ==
  Done("wheel") =>
    \A a, b \in Range(tokenShards) :
      (a.chainName = b.chainName /\ ShardWeight(a) > ShardWeight(b))
        => a.areaAbs >= b.areaAbs

\* the heavier token's own seed gave the smaller sub-cell, and it got the larger one
C3_Witness ==
  /\ Done("wheel")
  /\ \E a, b \in Range(tokenShards) :
       /\ a.chainName = b.chainName
       /\ ShardWeight(a) > ShardWeight(b)
       /\ a.areaAbs > b.areaAbs
       /\ TokenPosition(a.chainName, a.label) = b.poly

(* C4: no output entity is a duplicate: in partition mode no two item cells of a
   group carry the same item id and every cell's (group, item) is an input item of
   that group; in packing mode every active input item has exactly one circle and
   every circle is such an item. *)
C4_NoDuplicates ==
  /\ (Done("wheel") \/ Done("wallet")) =>
       /\ \A i, j \in 1..Len(tokenShards) :
            i # j => <<tokenShards[i].chainName, tokenShards[i].label>>
                       # <<tokenShards[j].chainName, tokenShards[j].label>>
       /\ \A sh \in Range(tokenShards) :
            \E g \in 1..Len(walletData) :
              /\ walletData[g].chain = sh.chainName
              /\ \E k \in 1..Len(walletData[g].tokens) :
                   walletData[g].tokens[k].sym = sh.label
  /\ Done("circle") =>
       /\ \A g \in 1..Len(activeChains) :
            \A k \in 1..Len(activeChains[g].tokens) :
              Cardinality({n \in 1..Len(nodes) :
                             /\ nodes[n].chain = activeChains[g].chain
                             /\ nodes[n].symbol = activeChains[g].tokens[k].sym}) = 1
       /\ Len(nodes) = SumSeq([g \in 1..Len(activeChains) |-> Len(activeChains[g].tokens)])

\* a group lost an item to a dropped sub-cell and still has two cells
C4_Witness ==
  /\ Done("wheel")
  /\ Len(tokenShards) >= 2
  /\ Len(tokenShards) < SumSeq([g \in 1..Len(activeChains) |-> Len(activeChains[g].tokens)])

(* C5: an item whose amount is NaN, +Infinity, -Infinity, zero or negative never
   becomes a cell or a circle, and a group with no valid item is not active. *)
C5_AmountsFiltered ==
  pc = "done" =>
    /\ \A sh \in Range(tokenShards) : ValidAmount(sh.amount)
    /\ \A n \in Range(nodes) : ValidAmount(n.amount)
    /\ \A c \in Range(activeChains) : \E t \in Range(c.tokens) : ValidAmount(t.amt)

(* C6: when the input has no group, or no group has an item with a valid amount,
   partition mode returns no item cell and no label, packing mode no circle and no
   pointer target. *)
C6_EmptyInputEmptyResult ==
  (pc = "done" /\ \A g \in 1..Len(walletData) :
                    \A t \in Range(walletData[g].tokens) : ~ValidAmount(t.amt))
    => /\ tokenShards = <<>>
       /\ chainLabels = <<>>
       /\ nodes = <<>>
       /\ pointerTargetsByChain = <<>>

(* C7: computeSmartWeights gives one entry per input token, in input order, with
   the token's symbol and amount; the weight is the dollar value if it is a finite
   number greater than 0, else the group's fallback: 25 without priced tokens, else
   the median of the priced values, raised to 5 if below. *)
C7_SmartWeights ==
  Done("wheel") =>
    \A c \in DOMAIN smartWeights :
      LET toks == tokensOfChain(activeChains, c)
          out == smartWeights[c]
      IN  /\ Len(out) = Len(toks)
          /\ \A i \in 1..Len(toks) :
               /\ out[i].sym = toks[i].sym
               /\ out[i].amt = toks[i].amt
               /\ 2 * out[i].weight = TwiceModelWeight(c, toks, i)

(* C8: the weight that sizes a circle follows the Weight Model: the priced value
   for a priced item, the fallback weight of its group otherwise (25 exactly when
   the group has no priced item). *)
C8_PackingWeightModel ==
  Done("circle") =>
    \A i \in 1..Len(weightsForSizing) :
      LET c == weightsForSizing[i].chain
          toks == tokensOfChain(activeChains, c)
      IN  2 * weightsForSizing[i].w =
            WeightUnit * TwiceModelWeight(c, toks, TokenPosition(c, weightsForSizing[i].symbol))

(* C9: every circle of the packing output has MIN_R <= r <= MAX_R. *)
C9_RadiiBounded ==
  Done("circle") =>
    \A n \in Range(nodes) : MIN_R * PosUnit <= n.r /\ n.r <= MAX_R * PosUnit

\* one circle held up at MIN_R and one held down at MAX_R
C9_Witness ==
  /\ Done("circle")
  /\ \E i, j \in 1..Len(nodes) :
       LET sumW == SumSeq([k \in 1..Len(weightsForSizing) |-> weightsForSizing[k].w])
           wOf(n) == weightsForSizing[CHOOSE k \in 1..Len(weightsForSizing) :
                                        weightsForSizing[k].symbol = nodes[n].symbol].w
       IN  /\ nodes[i].r = MIN_R * PosUnit
           /\ circleUnclampedRadius(wOf(i), sumW) < MIN_R * PosUnit
           /\ nodes[j].r = MAX_R * PosUnit
           /\ circleUnclampedRadius(wOf(j), sumW) > MAX_R * PosUnit

\* C11: when a partition call with at least one active group has returned, the
\* coverage of the group cells it kept (clipped area over disk area) is at least
\* 0.99, also when every trial was spent without reaching 0.995
C11_CoverageReached ==
  (entry \in {"wheel", "wallet"} /\ pc = "done" /\ Len(activeChains) > 0)
    => locals.bestCoverage >= 990

\* the tolerance the packing claims are read with: 5 units of length, more than
\* twice the padding of the relaxation
PackingEpsilon == 5 * PosUnit

\* C12: when the packing has returned, the centres of any two distinct circles are
\* at least the sum of their radii minus the tolerance apart
C12_NearNonOverlap ==
  (entry = "circle" /\ pc = "done") =>
    \A i, j \in 1..Len(nodes) :
      i < j => Hypot(nodes[j].x - nodes[i].x, nodes[j].y - nodes[i].y)
                 >= nodes[i].r + nodes[j].r - PackingEpsilon

\* C13: when the packing has returned, every circle's distance from the centre
\* plus its radius is at most the disk radius plus the tolerance
C13_NearContainment ==
  (entry = "circle" /\ pc = "done") =>
    \A i \in 1..Len(nodes) : edgeReach(nodes[i]) <= RADIUS * PosUnit + PackingEpsilon

\* the sizing weight of the circle at position n of the output (one group: the
\* symbol names the token)
SizingWeightOf(n) ==
  weightsForSizing[CHOOSE k \in 1..Len(weightsForSizing) :
                     /\ weightsForSizing[k].chain = nodes[n].chain
                     /\ weightsForSizing[k].symbol = nodes[n].symbol].w

SumOfSizingWeights == SumSeq([k \in 1..Len(weightsForSizing) |-> weightsForSizing[k].w])

\* sqrt(k * w / pi) > MAX_R with k = pi * R^2 * 0.5 / sumW, without the square root
UnclampedExceedsMax(w, sumW) == ((RADIUS * RADIUS) \div 2) * w > MAX_R * MAX_R * sumW

\* the scenario: one group whose sizing weights are 1000, 10, 10 in input order
ScenarioWeights ==
  /\ Done("circle")
  /\ Len(weightsForSizing) = 3
  /\ [k \in 1..3 |-> weightsForSizing[k].w]
       = <<1000 * WeightUnit, 10 * WeightUnit, 10 * WeightUnit>>

\* C14: in the packing output a circle of larger or equal sizing weight has a
\* larger or equal radius; a circle whose unclamped radius exceeds MAX_R has radius
\* exactly MAX_R; for the weights 1000, 10, 10 the first token's circle has radius
\* MAX_R and is strictly larger than the other two
C14_RadiusFollowsWeight ==
  Done("circle") =>
    /\ \A i, j \in 1..Len(nodes) :
         SizingWeightOf(i) >= SizingWeightOf(j) => nodes[i].r >= nodes[j].r
    /\ \A i \in 1..Len(nodes) :
         UnclampedExceedsMax(SizingWeightOf(i), SumOfSizingWeights)
           => nodes[i].r = MAX_R * PosUnit
    /\ ScenarioWeights =>
         \A i \in 1..Len(nodes) :
           IF nodes[i].symbol = weightsForSizing[1].symbol
           THEN nodes[i].r = MAX_R * PosUnit
           ELSE nodes[i].r < MAX_R * PosUnit

\* the scenario has run: three circles, the heavy one held down at MAX_R
C14_Witness ==
  /\ ScenarioWeights
  /\ Len(nodes) = 3
  /\ UnclampedExceedsMax(weightsForSizing[1].w, SumOfSizingWeights)
  /\ \E i \in 1..3 : nodes[i].symbol = weightsForSizing[1].symbol
                        /\ nodes[i].r = MAX_R * PosUnit

\* two recorded invocations have the same active groups, and group i has the
\* same number of items in both
SameGroupIn(r1, r2, i) ==
  /\ Len(invocations[r1].groups) = Len(invocations[r2].groups)
  /\ \A k \in 1..Len(invocations[r1].groups) :
       invocations[r1].groups[k].chain = invocations[r2].groups[k].chain
  /\ i \in 1..Len(invocations[r1].groups)
  /\ invocations[r1].groups[i].n = invocations[r2].groups[i].n

\* C15: the random draws that place one group's items are the same in two
\* invocations that differ only in the numbers of items of the other groups
C15_IndependentStreams ==
  \A r1, r2 \in DOMAIN invocations :
    \A i \in 1..Len(invocations[r1].groups) :
      SameGroupIn(r1, r2, i) => invocations[r1].draws[i] = invocations[r2].draws[i]

\* the part of C15 that speaks of the partition: the item seeds of the wheel
C15_WheelStreams ==
  entry = "wheel" => C15_IndependentStreams

\* two seeds are equal modulo 2^32 (|n| < 2^31 in both)
SameSeedModulo(s1, s2) == s1[2] = s2[2]

\* a numerator v of a returned value with 0 <= v / 2^32 < 1
InUnitInterval(v) == v[1] = 0 /\ v[2] \in 0..(Half - 1) /\ v[3] \in 0..(Half - 1)

\* C16: a generator's state starts at its seed reduced to 32 bits; every value it
\* has returned is in [0,1); two generators whose seeds are equal modulo 2^32 have
\* returned the same values call by call, however their calls were interleaved
C16_RandomSource ==
  \A g \in DOMAIN generators :
    /\ Len(generators[g].out) = 0 => generators[g].t = ToUint32(generators[g].seed[2])
    /\ \A k \in 1..Len(generators[g].out) : InUnitInterval(generators[g].out[k])
    /\ \A h \in DOMAIN generators :
         SameSeedModulo(generators[g].seed, generators[h].seed) =>
           \A k \in 1..Min(Len(generators[g].out), Len(generators[h].out)) :
             generators[g].out[k] = generators[h].out[k]

\* two generators with different seeds that are equal modulo 2^32, one advanced
\* further than the other, and a returned value whose bits have the sign bit set
C16_Witness ==
  \E g, h \in DOMAIN generators :
    /\ generators[g].seed # generators[h].seed
    /\ SameSeedModulo(generators[g].seed, generators[h].seed)
    /\ Len(generators[g].out) = MaxCalls
    /\ Len(generators[h].out) = 1
    /\ \E k \in 1..MaxCalls : generators[g].out[k][2] >= Half \div 2

\* the seed search of a partition call is over
SearchOver == entry \in {"wheel", "wallet"} /\ pc = "chains"

\* the number of trials evaluated when the search is over: all of them, or those up
\* to the one the loop stopped at
EvaluatedTrials == IF locals.s < maxSeedSearch THEN locals.s + 1 ELSE maxSeedSearch

\* the coverage trial s (from 0) scores
CoverageOfTrial(s) ==
  Min(geom.trials[s + 1].coverage, polygonCoverage(locals.circleSegments))

\* C17: when the seed search is over, the trials evaluated are trials 0, 1, ... in
\* order; the cells and the seeds kept are those of one and the same trial; that
\* trial has the largest coverage of the evaluated trials and is the earliest such;
\* no evaluated trial but the last reaches 0.995, and the search goes on to the cap
\* unless the last one does
C17_TrialSelection ==
  SearchOver =>
    /\ locals.bestSeeds \in 0..(EvaluatedTrials - 1)
    /\ bestCells = geom.trials[locals.bestSeeds + 1].cells
    /\ locals.bestCoverage = CoverageOfTrial(locals.bestSeeds)
    /\ \A s \in 0..(EvaluatedTrials - 1) :
         /\ CoverageOfTrial(s) <= locals.bestCoverage
         /\ s < locals.bestSeeds => CoverageOfTrial(s) < locals.bestCoverage
         /\ s < EvaluatedTrials - 1 => CoverageOfTrial(s) < 995
    /\ EvaluatedTrials < maxSeedSearch => CoverageOfTrial(EvaluatedTrials - 1) >= 995

\* a tie: the search ran to the cap, two trials score the same best coverage with
\* different cells, and the first of them is kept
C17_Witness ==
  /\ SearchOver
  /\ EvaluatedTrials = maxSeedSearch
  /\ locals.bestSeeds = 0
  /\ \E s \in 1..(maxSeedSearch - 1) :
       /\ CoverageOfTrial(s) = locals.bestCoverage
       /\ geom.trials[s + 1].cells # bestCells

\* the number of valid sub-cells of active group i: the clipped item cells that keep
\* more than 2 vertices, none if the group owns no cell
ValidSubCells(i) ==
  IF geom.env[i].has
  THEN Cardinality({k \in 1..Len(geom.env[i].areas) : geom.env[i].areas[k] # Dropped})
  ELSE 0

\* the item cells the output holds for chain c
CellsOfGroup(c) == SelectSeq(tokenShards, LAMBDA sh : sh.chainName = c)

\* the visual weight of token sym of a chain that owns a cell
WeightOfItem(c, sym) ==
  LET ws == smartWeights[c]
  IN  ws[CHOOSE k \in 1..Len(ws) : ws[k].sym = sym].weight

\* C18: for every active group with n items and m valid sub-cells the output holds
\* exactly min(n, m) item cells of the group; no omitted item is heavier than an
\* item that has a cell; with m >= n every item of the group has a cell
C18_LossyOmission ==
  Done("wheel") =>
    \A i \in 1..Len(activeChains) :
      LET c == activeChains[i].chain
          toks == activeChains[i].tokens
          shown == {CellsOfGroup(c)[k].label : k \in 1..Len(CellsOfGroup(c))}
          items == {toks[k].sym : k \in 1..Len(toks)}
      IN  /\ Len(CellsOfGroup(c)) = Min(Len(toks), ValidSubCells(i))
          /\ Cardinality(shown) = Len(CellsOfGroup(c))
          /\ shown \subseteq items
          /\ \A o \in items \ shown, q \in shown :
               WeightOfItem(c, o) <= WeightOfItem(c, q)
          /\ ValidSubCells(i) >= Len(toks) => shown = items

\* three items of three different weights, two valid sub-cells: the lightest item is
\* the one left out, although its own seed's sub-cell is valid
C18_Witness ==
  /\ Done("wheel")
  /\ Len(activeChains) = 1
  /\ Len(activeChains[1].tokens) = 3
  /\ ValidSubCells(1) = 2
  /\ Len(tokenShards) = 2
  /\ \E k \in 1..3 :
       LET c == activeChains[1].chain
           o == activeChains[1].tokens[k].sym
       IN  /\ \A sh \in Range(tokenShards) :
                sh.label # o /\ WeightOfItem(c, o) < WeightOfItem(c, sh.label)
           /\ geom.env[1].areas[k] # Dropped

\* the seed is the exact centroid of the group cell: the sampler's fallback, or a
\* jittered point whose offset has length 0
ExactCentroid(pt) ==
  \/ pt[1] = "centroid"
  \/ pt[1] = "jitter" /\ pt[3] = 0

\* C19: in every invocation that places item seeds, at most one item of a group has
\* the exact centroid of the group cell as its seed
C19_CentroidNotReused ==
  \A r \in DOMAIN invocations :
    LET seeds == IF geom.for = "wheel" THEN invocations[r].coinPts
                 ELSE IF geom.for = "nested" THEN invocations[r].tokenSeeds
                 ELSE <<>>
    IN  \A i \in 1..Len(seeds) :
          Cardinality({k \in 1..Len(seeds[i]) : ExactCentroid(seeds[i][k])}) <= 1

\* the part of C19 that speaks of AssetWheel.tsx: its fallback is never the centroid
C19_WheelJitter ==
  geom.for = "wheel" => C19_CentroidNotReused

\* C20: the polygon a clip returns is empty or has at least 3 vertices; a cell that
\* is missing or has fewer than 3 points yields no polygon; so every polygon kept
\* as a cell has at least 3 vertices
C20_DegenerateDropped ==
  pc = "done" =>
    /\ Len(clipOut) = 0 \/ Len(clipOut) >= 3
    /\ Len(clipIn.subject) < 3 => clipOut = <<>>

\* a triangle that lies outside the group cell is cut away to nothing
C20_Witness ==
  /\ pc = "done"
  /\ clipIn.subject \in Triangles
  /\ clipOut = <<>>

\* the amount the input holds for item sym of group c
InputAmount(c, sym) ==
  LET g == CHOOSE i \in 1..Len(walletData) : walletData[i].chain = c
      toks == walletData[g].tokens
  IN  toks[CHOOSE k \in 1..Len(toks) : toks[k].sym = sym].amt

\* the color of group c: its entry in the color table, or the default
GroupColor(c) ==
  IF c = "Solana" THEN "rgba(99, 99, 53, 0.30)"
  ELSE IF c = "Arbitrum" THEN "rgba(39, 92, 101, 0.30)"
  ELSE IF c = "Ethereum" THEN "rgba(39, 101, 84, 0.30)"
  ELSE "rgba(153,153,153,0.30)"

(* C21: in AssetWheel's partition every output item cell carries the label of an item
   of its group together with the input amount of that same item (not the amount of
   the item whose seed made the polygon), the color of its group (the default color
   when the group has none) and the centroid of the polygon it carries. *)
C21_ItemDataTogether ==
  Done("wheel") =>
    \A n \in 1..Len(tokenShards) :
      LET sh == tokenShards[n]
      IN  /\ \E i \in 1..Len(walletData) :
                /\ walletData[i].chain = sh.chainName
                /\ \E k \in 1..Len(walletData[i].tokens) :
                     walletData[i].tokens[k].sym = sh.label
          /\ sh.amount = InputAmount(sh.chainName, sh.label)
          /\ sh.color = GroupColor(sh.chainName)
          /\ sh.centroid = [centroidOf |-> sh.poly]

\* an item cell whose polygon grew from another item's seed, that item holding another
\* amount, in a call that also put out a cell of a group without a color of its own
C21_Witness ==
  /\ Done("wheel")
  /\ \E n \in 1..Len(tokenShards) :
       LET sh == tokenShards[n]
       IN  /\ TokenPosition(sh.chainName, sh.label) # sh.poly
           /\ \E m \in 1..Len(tokenShards) :
                /\ tokenShards[m].chainName = sh.chainName
                /\ tokenShards[m].amount # sh.amount
  /\ \E n \in 1..Len(tokenShards) : tokenShards[n].color = "rgba(153,153,153,0.30)"

\* the active groups, in input order
ActiveGroupNames == [i \in 1..Len(activeChains) |-> activeChains[i].chain]

\* the active groups that own a cell in the winning trial, in input order
GroupsWithCell == SelectSeq(ActiveGroupNames, LAMBDA c : c \in bestCells)

(* C22: in partition mode the labels are exactly the active groups that own a cell in
   the winning trial, one label each, in input group order, each anchored at the
   centroid of its group's cell; a group without a cell has no label and no item
   cell, so every output item cell belongs to a group that has a label. *)
C22_GroupLabels ==
  (Done("wheel") \/ Done("wallet")) =>
    /\ Len(chainLabels) = Len(GroupsWithCell)
    /\ \A p \in 1..Len(chainLabels) :
         /\ chainLabels[p].name = GroupsWithCell[p]
         /\ chainLabels[p].anchor = [centroidOf |-> GroupsWithCell[p]]
    /\ \A n \in 1..Len(tokenShards) :
         /\ tokenShards[n].chainName \in bestCells
         /\ \E p \in 1..Len(chainLabels) : chainLabels[p].name = tokenShards[n].chainName

\* the first active group owns no cell, the second owns one and has item cells
C22_Witness ==
  /\ Done("wheel")
  /\ Len(activeChains) = 2
  /\ activeChains[1].chain \notin bestCells
  /\ activeChains[2].chain \in bestCells
  /\ Len(chainLabels) = 1
  /\ Len(tokenShards) > 0

\* distance from the centre plus radius
ReachScore(n) == Hypot(n.x, n.y) + n.r

\* the first circle of ns, among those at the positions idxs, with the largest score
FirstOfLargestScore(ns, idxs) ==
  CHOOSE i \in idxs : \A j \in idxs : \/ ReachScore(ns[j]) < ReachScore(ns[i])
                                        \/ (ReachScore(ns[j]) = ReachScore(ns[i]) /\ i <= j)

\* circle i of a relaxation in progress touches no other circle's padded rim and lies
\* inside the padded outline: only its anchor acts on it
OnlyAnchored(i) ==
  LET ns == locals.st.nodes
  IN  /\ \A j \in 1..Len(ns) :
           j # i => Hypot(ns[j].x - ns[i].x, ns[j].y - ns[i].y)
                      >= ns[i].r + ns[j].r + (22 * PosUnit) \div 10
      /\ Hypot(ns[i].x, ns[i].y) <= (RADIUS - 2) * PosUnit - ns[i].r - (22 * PosUnit) \div 10

\* one iteration with an anchor strength of perMille thousandths (and damping 0.86)
\* moves every circle on which only its anchor acts by its damped, pulled velocity
AnchorPull(perMille) ==
  \A i \in 1..Len(locals.st.nodes) :
    OnlyAnchored(i) =>
      LET n == locals.st.nodes[i]
          vx == Quot((locals.st.vx[i] + Quot((n.ax - n.x) * perMille, 1000)) * 86, 100)
          vy == Quot((locals.st.vy[i] + Quot((n.ay - n.y) * perMille, 1000)) * 86, 100)
      IN  locals'.st.nodes[i] = [n EXCEPT !.x = n.x + vx, !.y = n.y + vy]

\* the step from the primary to the secondary relaxation moves one circle, the first of
\* largest score, to the distance RADIUS - 3 - r along its direction, and no other
BoundaryContactCorrection ==
  LET before == locals.st.nodes
      after == locals'.st.nodes
      b == FirstOfLargestScore(before, 1..Len(before))
      desired == (RADIUS - 3) * PosUnit - before[b].r
  IN  /\ Len(after) = Len(before)
      /\ \A i \in 1..Len(before) : i # b => after[i] = before[i]
      /\ after[b] = [before[b] EXCEPT !.x = after[b].x, !.y = after[b].y]
      /\ Hypot(after[b].x, after[b].y) \in (desired - 2)..desired
      /\ after[b].x * before[b].x + after[b].y * before[b].y > 0
      /\ Abs(after[b].x * before[b].y - after[b].y * before[b].x)
           <= Abs(before[b].x) + Abs(before[b].y)
      /\ \A i \in 1..Len(after) : locals'.st.vx[i] = 0 /\ locals'.st.vy[i] = 0

(* C23: the packing runs three phases in this order: a primary relaxation of 420
   iterations with anchor strength 0.020; one boundary-contact correction that moves
   exactly one circle, the first of largest (distance from centre + radius) after the
   primary pass, to distance RADIUS - 3 - radius along its direction and leaves every
   other circle in place; a secondary relaxation of 120 iterations with anchor
   strength 0.012, after which the circles are returned. *)
C23_ThreePhases ==
  [][entry' = "circle" =>
       /\ pc = "idle" => pc' \in {"primary", "done"}
       /\ pc = "primary" => pc' \in {"primary", "secondary"}
       /\ pc = "secondary" => pc' \in {"secondary", "done"}
       /\ (pc = "idle" /\ pc' = "primary") => locals'.it = 0
       /\ (pc = "primary" /\ pc' = "primary") =>
            locals.it < 420 /\ locals'.it = locals.it + 1 /\ AnchorPull(20)
       /\ (pc = "primary" /\ pc' = "secondary") =>
            locals.it = 420 /\ locals'.it = 0 /\ BoundaryContactCorrection
       /\ (pc = "secondary" /\ pc' = "secondary") =>
            locals.it < 120 /\ locals'.it = locals.it + 1 /\ AnchorPull(12)
       /\ (pc = "secondary" /\ pc' = "done") =>
            locals.it = 120 /\ nodes' = locals.st.nodes]_vars

\* the correction of a crowd has just moved a circle other than the first to the
\* distance RADIUS - 3 - r
C23_Witness ==
  /\ entry = "circle" /\ pc = "secondary"
  /\ locals.it = 0
  /\ Len(locals.st.nodes) = MaxCrowd
  /\ \E b \in 2..MaxCrowd :
       Hypot(locals.st.nodes[b].x, locals.st.nodes[b].y)
            \in ((RADIUS - 3) * PosUnit - locals.st.nodes[b].r - 2)
                ..((RADIUS - 3) * PosUnit - locals.st.nodes[b].r)

\* the groups of the input that hold an item of finite, positive amount
ActiveGroupsOfInput ==
  {walletData[i].chain : i \in {g \in 1..Len(walletData) :
      \E k \in 1..Len(walletData[g].tokens) : ValidAmount(walletData[g].tokens[k].amt)}}

\* the positions of group g's circles in the returned list
CirclesOf(g) == {i \in 1..Len(nodes) : nodes[i].chain = g}

(* C24: the packing result holds exactly one pointer target per active group; the
   target of group g is a circle of the returned list that belongs to g and has the
   highest (distance from centre + radius) among g's circles, the first such circle
   in the order of the list on ties. *)
C24_PointerTargets ==
  Done("circle") =>
    /\ DOMAIN pointerTargetsByChain = ActiveGroupsOfInput
    /\ \A g \in ActiveGroupsOfInput :
         /\ CirclesOf(g) # {}
         /\ pointerTargetsByChain[g] = nodes[FirstOfLargestScore(nodes, CirclesOf(g))]

\* two active groups; the target of the group of two circles is its second circle
C24_Witness ==
  /\ Done("circle")
  /\ Cardinality(ActiveGroupsOfInput) = 2
  /\ \E g \in ActiveGroupsOfInput :
       /\ Cardinality(CirclesOf(g)) = 2
       /\ \E i, j \in CirclesOf(g) : i < j /\ pointerTargetsByChain[g] = nodes[j]
                                          /\ nodes[i] # nodes[j]

\* 0.78 of the disk radius
RingRadius == (RADIUS * PosUnit * 78) \div 100

\* the active groups in input order
ActiveOrder ==
  SelectSeq([i \in 1..Len(walletData) |-> walletData[i].chain],
            LAMBDA c : c \in ActiveGroupsOfInput)

\* the anchor the circles of the packing in progress carry for the i-th active group
AnchorOfGroup(i) ==
  LET ns == locals.st.nodes
      k == CHOOSE k \in 1..Len(ns) : ns[k].chain = ActiveOrder[i]
  IN  <<ns[k].ax, ns[k].ay>>

\* the active group after the i-th, around the ring
NextAround(i) == IF i = Len(ActiveOrder) THEN 1 ELSE i + 1

Chord(a, b) == Hypot(a[1] - b[1], a[2] - b[2])

(* C25: with n active groups the anchors lie on the ring of radius 0.78 * RADIUS, the
   first group's at angle -PI/2 and each next group's 2*PI/n further, so that they are
   evenly spaced; all circles of a group carry the anchor of that group; and a circle
   starts within 0.05 * RADIUS of its anchor in each coordinate. *)
C25_Anchors ==
  (entry = "circle" /\ pc \in {"primary", "secondary"}) =>
    LET ns == locals.st.nodes
        n == Len(ActiveOrder)
    IN  /\ \A k, l \in 1..Len(ns) :
             ns[k].chain = ns[l].chain => ns[k].ax = ns[l].ax /\ ns[k].ay = ns[l].ay
        /\ \A i \in 1..n : \E k \in 1..Len(ns) : ns[k].chain = ActiveOrder[i]
        /\ AnchorOfGroup(1) = <<0, 0 - RingRadius>>
        /\ \A i \in 1..n :
             /\ Abs(Hypot(AnchorOfGroup(i)[1], AnchorOfGroup(i)[2]) - RingRadius) <= 1
             /\ Abs(Chord(AnchorOfGroup(i), AnchorOfGroup(NextAround(i)))
                    - Chord(AnchorOfGroup(1), AnchorOfGroup(NextAround(1)))) <= 2
             /\ n >= 3 =>
                  AnchorOfGroup(i)[1] * AnchorOfGroup(NextAround(i))[2]
                    - AnchorOfGroup(i)[2] * AnchorOfGroup(NextAround(i))[1] > 0
        /\ n = 2 => Chord(AnchorOfGroup(1), AnchorOfGroup(2)) >= 2 * RingRadius - 2
        /\ (pc = "primary" /\ locals.it = 0) =>
             \A k \in 1..Len(ns) :
               /\ Abs(ns[k].x - ns[k].ax) <= (RADIUS * PosUnit) \div 20
               /\ Abs(ns[k].y - ns[k].ay) <= (RADIUS * PosUnit) \div 20

\* four active groups, one of two circles, at the start of the primary relaxation,
\* every circle off its anchor
C25_Witness ==
  /\ entry = "circle" /\ pc = "primary" /\ locals.it = 0
  /\ Len(ActiveOrder) = 4
  /\ Len(locals.st.nodes) = 5
  /\ \A k \in 1..5 : locals.st.nodes[k].x # locals.st.nodes[k].ax

\* an item cell has been clipped and kept, with its centroid
CentroidKept == pc = "done" /\ entry \in {"wheel", "wallet"} /\ centroidOut # <<>>

\* C26: every centroid placed in the output is a pair of finite numbers: where the
\* polygon's area is zero, the centroid is the mean of the vertices, not a quotient
\* by the area
C26_CentroidFinite ==
  CentroidKept => centroidOut[1].kind = "num" /\ centroidOut[2].kind = "num"

\* the cross product of the subject edge and the clip edge of clipIn (points of the grid)
EdgeDenominator ==
  LET p == clipIn.subject[1]
      q == clipIn.subject[2]
      a == clipIn.clipper[1]
      b == clipIn.clipper[2]
  IN  (q[1] - p[1]) * (b[2] - a[2]) - (q[2] - p[2]) * (b[1] - a[1])

\* the finite point r lies on the line through the grid points u and v
OnLine(r, u, v) ==
  LET x == r[1].v
      y == r[2].v
  IN  (x[1] - u[1] * x[2]) * y[2] * (v[2] - u[2])
        = (y[1] - u[2] * y[2]) * x[2] * (v[1] - u[1])

\* the point returned is finite, is the second endpoint of the subject edge where the
\* edges are near-parallel, and is the point common to both lines otherwise
IntersectionAsSpecified ==
  LET r == clipOut.point
      q == clipIn.subject[2]
  IN  /\ r[1].kind = "num" /\ r[2].kind = "num"
      /\ Abs(EdgeDenominator) < DenomTol => r = <<Ratio(<<q[1], 1>>), Ratio(<<q[2], 1>>)>>
      /\ Abs(EdgeDenominator) >= DenomTol =>
           /\ OnLine(r, clipIn.subject[1], clipIn.subject[2])
           /\ OnLine(r, clipIn.clipper[1], clipIn.clipper[2])

\* C27: the line intersection of every convex clip returns the second endpoint of the
\* subject edge when the edges are near-parallel (|denominator| below the tolerance),
\* the intersection point of the two lines otherwise, and always a finite point
C27_IntersectionFallback == pc = "done" => IntersectionAsSpecified

\* the same of the intersections of AssetWheel.tsx and utils/geom.ts alone
C27_WheelAndGeom == (pc = "done" /\ entry \in {"wheel", "wallet"}) => IntersectionAsSpecified

\* the circles of the relaxation in progress are those handed to it, in their order,
\* moved: nothing but x and y differs
OnlyMoved ==
  /\ Len(locals.st.nodes) = Len(locals.nodesIn)
  /\ \A i \in 1..Len(locals.nodesIn) :
       locals.st.nodes[i] = [locals.nodesIn[i] EXCEPT !.x = locals.st.nodes[i].x,
                                                      !.y = locals.st.nodes[i].y]

\* the velocity circle i of a relaxation (anchor and boundary strengths in thousandths
\* and hundredths) takes in one iteration in which the repulsion adds push to it
VelocityAfter(i, c, push, anchorPerMille, boundaryPerCent) ==
  LET n == locals.st.nodes[i]
      v == IF c = "x" THEN locals.st.vx[i] ELSE locals.st.vy[i]
      at == IF c = "x" THEN n.x ELSE n.y
      to == IF c = "x" THEN n.ax ELSE n.ay
      d0 == Hypot(n.x, n.y)
      maxD == (RADIUS - 2) * PosUnit - n.r - (22 * PosUnit) \div 10
      back == IF d0 > maxD /\ d0 > 0
              THEN 0 - Quot(at * (d0 - maxD) * boundaryPerCent, d0 * 100)
              ELSE 0
  IN  Quot((v + push + Quot((to - at) * anchorPerMille, 1000) + back) * 86, 100)

\* in an iteration on two circles, what the repulsion takes from the velocity of the
\* first it adds to the velocity of the second
EqualAndOpposite(anchorPerMille, boundaryPerCent) ==
  Len(locals.st.nodes) = 2 =>
    /\ \E px \in (0 - 4 * RADIUS)..(4 * RADIUS) :
         /\ locals'.st.vx[1] = VelocityAfter(1, "x", 0 - px, anchorPerMille, boundaryPerCent)
         /\ locals'.st.vx[2] = VelocityAfter(2, "x", px, anchorPerMille, boundaryPerCent)
    /\ \E py \in (0 - 4 * RADIUS)..(4 * RADIUS) :
         /\ locals'.st.vy[1] = VelocityAfter(1, "y", 0 - py, anchorPerMille, boundaryPerCent)
         /\ locals'.st.vy[2] = VelocityAfter(2, "y", py, anchorPerMille, boundaryPerCent)

(* C28: packCircles returns a list of the length and order of its input and leaves the
   input as it was; between input and output only x and y of a circle differ (id,
   group, item, amount, radius and anchor are kept); and in every iteration the
   repulsion of an overlapping pair is equal and opposite. *)
C28_PackFrame ==
  [][(entry = "circle" /\ pc \in {"primary", "secondary"}) =>
       /\ OnlyMoved
       /\ pc' = pc => /\ locals'.nodesIn = locals.nodesIn
                      /\ pc = "primary" => EqualAndOpposite(20, 55)
                      /\ pc = "secondary" => EqualAndOpposite(12, 65)
       /\ pc' = "done" => /\ Len(nodes') = Len(locals.nodesIn)
                          /\ \A i \in 1..Len(nodes') :
                               nodes'[i] = [locals.nodesIn[i] EXCEPT !.x = nodes'[i].x,
                                                                    !.y = nodes'[i].y]]_vars

\* two overlapping circles in a relaxation, both moved from where they were handed in
C28_Witness ==
  /\ entry = "circle" /\ pc = "primary" /\ locals.it > 0
  /\ Len(locals.st.nodes) = 2
  /\ Hypot(locals.st.nodes[2].x - locals.st.nodes[1].x,
           locals.st.nodes[2].y - locals.st.nodes[1].y)
       < locals.st.nodes[1].r + locals.st.nodes[2].r
  /\ \A i \in 1..2 : locals.st.nodes[i] # locals.nodesIn[i]
  /\ locals.st.vx[1] # locals.st.vx[2]

----------------------------------------------------------------------------
(* App.tsx: the send form. A text is a sequence of characters. The amounts   *)
(* typed are whole numbers: no text with a fraction or an exponent is among  *)
(* the inputs.                                                               *)

DecimalDigits == <<"0", "1", "2", "3", "4", "5", "6", "7", "8", "9">>
HexLetters == <<"a", "b", "c", "d", "e", "f">>
UpperHexLetters == <<"A", "B", "C", "D", "E", "F">>
WhiteSpace == {" "}

Chars(seq) == {seq[i] : i \in 1..Len(seq)}

\* String.prototype.trim
RECURSIVE trim(_)
trim(text) ==
  IF text = <<>> THEN text
  ELSE IF Head(text) \in WhiteSpace THEN trim(Tail(text))
  ELSE IF text[Len(text)] \in WhiteSpace THEN trim(SubSeq(text, 1, Len(text) - 1))
  ELSE text

\* /^0x[a-fA-F0-9]{40}$/.test(text)
matchesAddress(text) ==
  /\ Len(text) = 2 + 40
  /\ text[1] = "0"
  /\ text[2] = "x"
  /\ \A i \in 3..Len(text) :
       text[i] \in Chars(DecimalDigits) \cup Chars(HexLetters) \cup Chars(UpperHexLetters)

isHexAddress(value) == matchesAddress(trim(value))

\* the value of a digit in base 16
digitValue(c) ==
  IF c \in Chars(DecimalDigits) THEN (CHOOSE d \in 1..10 : DecimalDigits[d] = c) - 1
  ELSE IF c \in Chars(HexLetters) THEN 9 + (CHOOSE d \in 1..6 : HexLetters[d] = c)
  ELSE 9 + (CHOOSE d \in 1..6 : UpperHexLetters[d] = c)

RECURSIVE digitsValue(_, _)
digitsValue(digits, base) ==
  IF digits = <<>> THEN 0
  ELSE digitsValue(SubSeq(digits, 1, Len(digits) - 1), base) * base
         + digitValue(digits[Len(digits)])

InfinityText == <<"I", "n", "f", "i", "n", "i", "t", "y">>

\* Number(text): white space is trimmed, the empty text is 0, a 0x prefix reads base 16,
\* a sign is allowed before decimal digits and Infinity, anything else is NaN
StringToNumber(text) ==
  LET t == trim(text)
      signed == t # <<>> /\ Head(t) \in {"+", "-"}
      body == IF signed THEN Tail(t) ELSE t
      sign == IF signed /\ Head(t) = "-" THEN -1 ELSE 1
  IN  IF t = <<>> THEN Num(0)
      ELSE IF /\ Len(t) > 2
              /\ t[1] = "0"
              /\ t[2] \in {"x", "X"}
              /\ Chars(SubSeq(t, 3, Len(t)))
                   \subseteq Chars(DecimalDigits) \cup Chars(HexLetters) \cup Chars(UpperHexLetters)
           THEN Num(digitsValue(SubSeq(t, 3, Len(t)), 16))
      ELSE IF body = InfinityText THEN (IF sign = 1 THEN PosInf ELSE NegInf)
      ELSE IF body # <<>> /\ Chars(body) \subseteq Chars(DecimalDigits)
           THEN Num(sign * digitsValue(body, 10))
      ELSE NaN

\* x <= y on JS numbers
jsLessEq(x, y) ==
  /\ x.kind \in {"num", "Inf"}
  /\ y.kind \in {"num", "Inf"}
  /\ \/ x.kind = "num" /\ y.kind = "num" /\ x.v <= y.v
     \/ x.kind = "Inf" /\ x.v < 0
     \/ y.kind = "Inf" /\ y.v > 0

MainnetId == 1868
MinatoId == 1946

AddressText == <<"0", "x">> \o [i \in 1..40 |-> IF i % 2 = 0 THEN "A" ELSE "7"]
TokenText == <<"0", "x">> \o [i \in 1..40 |-> IF i % 3 = 0 THEN "c" ELSE "0"]

\* what the recipient field can hold
RecipientTexts ==
  { <<>>,
    AddressText,
    <<" ">> \o AddressText \o <<" ">>,
    SubSeq(AddressText, 1, 41),
    [AddressText EXCEPT ![9] = "g"] }

\* what the amount field can hold
AmountTexts ==
  { <<>>, <<"5">>, <<"9">>, <<"-", "2">>, <<"0", "x", "2">>, InfinityText, <<"a">> }

\* AssetOption: an absent chainId is 0, an absent isNative FALSE and an absent
\* tokenAddress the empty text (each as falsy as the absent value)
NativeAsset(chain, id) ==
  [chain |-> chain, chainId |-> id, symbol |-> "ETH", balance |-> Num(5), isNative |-> TRUE,
   tokenAddress |-> <<>>, decimals |-> Num(18)]

TokenAsset(chain, id, symbol, address) ==
  [chain |-> chain, chainId |-> id, symbol |-> symbol, balance |-> Num(5), isNative |-> FALSE,
   tokenAddress |-> address, decimals |-> Num(18)]

WalletAsset(chain, symbol) ==
  [chain |-> chain, chainId |-> 0, symbol |-> symbol, balance |-> Num(5), isNative |-> FALSE,
   tokenAddress |-> <<>>, decimals |-> Undefined]

\* the lists a balance fetch can leave, sorted by chain + symbol
AssetLists ==
  { <<>>,
    <<WalletAsset("Solana", "SOL"),
      NativeAsset("Soneium Minato", MinatoId),
      TokenAsset("Soneium Minato", MinatoId, "TKN", TokenText),
      TokenAsset("Soneium Minato", MinatoId, "UNK", SubSeq(TokenText, 1, 6)),
      TokenAsset("Soneium", MainnetId, "TKN", TokenText)>> }

\* `${a.chain}::${a.symbol}`, kept as the pair; the empty key is <<>>
assetKey(a) == <<a.chain, a.symbol>>

\* the effect on [availableAssets, sendAssetKey]: an empty key becomes the first asset's
defaultSendAsset(a) ==
  IF a.availableAssets = <<>> \/ a.sendAssetKey # <<>> THEN a
  ELSE [a EXCEPT !.sendAssetKey = assetKey(a.availableAssets[1])]

\* availableAssets.find(...) || null, null being <<>>
selectedAsset(a) ==
  LET found == {i \in 1..Len(a.availableAssets) :
                  assetKey(a.availableAssets[i]) = a.sendAssetKey}
  IN  IF found = {} THEN <<>>
      ELSE a.availableAssets[CHOOSE i \in found : \A k \in found : i <= k]

recipientIsValid(a) == isHexAddress(a.sendRecipient)

sendMax(a) == IF selectedAsset(a) = <<>> THEN Num(0) ELSE selectedAsset(a).balance

parsedAmount(a) == StringToNumber(a.sendAmount)

amountIsValid(a) ==
  /\ selectedAsset(a) # <<>>
  /\ IsFinite(parsedAmount(a))
  /\ GtZero(parsedAmount(a))
  /\ jsLessEq(parsedAmount(a), sendMax(a))

isMinatoAsset(a) ==
  /\ selectedAsset(a) # <<>>
  /\ selectedAsset(a).chainId # 0
  /\ selectedAsset(a).chainId = MinatoId

\* Number.isFinite(decimals ?? 18)
decimalsFinite(d) == IF d = Undefined THEN TRUE ELSE IsFinite(d)

canSubmitSendAnyChain(a) ==
  /\ recipientIsValid(a)
  /\ amountIsValid(a)
  /\ selectedAsset(a) # <<>>
  /\ \/ selectedAsset(a).isNative
     \/ /\ selectedAsset(a).tokenAddress # <<>>
        /\ matchesAddress(selectedAsset(a).tokenAddress)
        /\ decimalsFinite(selectedAsset(a).decimals)

canSubmitSend(a) ==
  /\ recipientIsValid(a)
  /\ amountIsValid(a)
  /\ selectedAsset(a) # <<>>
  /\ isMinatoAsset(a)
  /\ \/ selectedAsset(a).isNative
     \/ /\ selectedAsset(a).tokenAddress # <<>>
        /\ matchesAddress(selectedAsset(a).tokenAddress)
        /\ decimalsFinite(selectedAsset(a).decimals)

\* how many times handleSendSubmit is followed
MaxSubmits == 2

\* the form as the component starts: nothing typed, no asset chosen, no client yet
NewSendForm(assets) ==
  defaultSendAsset(
    [smartAccountClient |-> FALSE, availableAssets |-> assets, isSendOpen |-> TRUE,
     sendRecipient |-> <<>>, sendAssetKey |-> <<>>, sendAmount |-> <<>>,
     submits |-> 0, sent |-> <<>>, settled |-> 0])

AppIdle == Idle /\ locals = <<>> /\ geom = <<>> /\ invocations = <<>> /\ clipIn = <<>>
           /\ clipOut = <<>> /\ generators = <<>> /\ centroidOut = <<>>
           /\ walletData = <<>> /\ walletUsd = <<>>

layoutVars == <<walletData, walletUsd, entry, pc, activeChains, bestCells, smartWeights,
                tokenShards, chainLabels, weightsForSizing, nodes, pointerTargetsByChain,
                locals, geom, invocations, clipIn, clipOut, generators, centroidOut>>

InitSend ==
  /\ AppIdle
  /\ \E assets \in AssetLists : app = NewSendForm(assets)

\* useSmartAccount(): the provider hands over a client, or takes it away
SmartAccountChanged ==
  /\ app' = [app EXCEPT !.smartAccountClient = ~@]
  /\ UNCHANGED layoutVars

\* fetchData: the token lists are replaced
AssetsFetched ==
  /\ \E assets \in AssetLists :
       /\ assets # app.availableAssets
       /\ app' = defaultSendAsset([app EXCEPT !.availableAssets = assets])
  /\ UNCHANGED layoutVars

\* onChange={(e) => setSendRecipient(e.target.value)}
RecipientTyped ==
  /\ \E text \in RecipientTexts :
       /\ text # app.sendRecipient
       /\ app' = [app EXCEPT !.sendRecipient = text]
  /\ UNCHANGED layoutVars

\* onChange={(e) => setSendAmount(e.target.value)}
AmountTyped ==
  /\ \E text \in AmountTexts :
       /\ text # app.sendAmount
       /\ app' = [app EXCEPT !.sendAmount = text]
  /\ UNCHANGED layoutVars

\* the asset select: setSendAssetKey(e.target.value); setSendAmount("")
AssetSelected ==
  /\ \E i \in 1..Len(app.availableAssets) :
       /\ assetKey(app.availableAssets[i]) # app.sendAssetKey
       /\ app' = [app EXCEPT !.sendAssetKey = assetKey(app.availableAssets[i]),
                             !.sendAmount = <<>>]
  /\ UNCHANGED layoutVars

\* the call handleSendSubmit makes: the recipient trimmed; the value, or the transfer
\* to encode, as the amount text the library parses; the data "0x" is no function
transactionOf(a) ==
  LET to == trim(a.sendRecipient)
      asset == selectedAsset(a)
  IN  IF asset.isNative
      THEN [to |-> to, value |-> [parseEther |-> a.sendAmount],
            data |-> [functionName |-> "", args |-> <<>>]]
      ELSE [to |-> asset.tokenAddress, value |-> [parseEther |-> <<"0">>],
            data |-> [functionName |-> "transfer",
                      args |-> <<to, [parseUnits |-> a.sendAmount,
                                      decimals |-> IF asset.decimals = Undefined THEN Num(18)
                                                   ELSE asset.decimals]>>]]

\* handleSendSubmit up to its await; every return but the one after the call alerts or
\* does nothing. parseEther and parseUnits are the library's: a text of decimal digits is
\* parsed, on any other the library may throw
handleSendSubmit ==
  /\ app.submits < MaxSubmits
  /\ \/ /\ ~app.smartAccountClient
        /\ app' = [app EXCEPT !.submits = @ + 1]
     \/ /\ app.smartAccountClient
        /\ ~canSubmitSend(app) \/ selectedAsset(app) = <<>>
        /\ app' = [app EXCEPT !.submits = @ + 1]
     \/ /\ app.smartAccountClient
        /\ canSubmitSend(app)
        /\ selectedAsset(app) # <<>>
        /\ \E thrown \in BOOLEAN :
             /\ thrown => ~(Chars(app.sendAmount) \subseteq Chars(DecimalDigits))
             /\ app' = IF thrown
                       THEN [app EXCEPT !.submits = @ + 1]
                       ELSE IF ~selectedAsset(app).isNative
                               /\ ~isHexAddress(selectedAsset(app).tokenAddress)
                       THEN [app EXCEPT !.submits = @ + 1]
                       ELSE [app EXCEPT !.submits = @ + 1,
                                        !.sent = Append(@, transactionOf(app))]
  /\ UNCHANGED layoutVars

\* handleSendSubmit after its await: closeSendModal(); setSendRecipient("");
\* setSendAmount(""); or, the transaction rejected, the alert
sendSettled ==
  /\ app.settled < Len(app.sent)
  /\ \E resolved \in BOOLEAN :
       app' = IF resolved
              THEN [app EXCEPT !.settled = @ + 1, !.isSendOpen = FALSE,
                               !.sendRecipient = <<>>, !.sendAmount = <<>>]
              ELSE [app EXCEPT !.settled = @ + 1]
  /\ UNCHANGED layoutVars

\* the Send tab opens the form again
SendOpened ==
  /\ ~app.isSendOpen
  /\ app' = [app EXCEPT !.isSendOpen = TRUE]
  /\ UNCHANGED layoutVars

NextSend ==
  \/ SmartAccountChanged
  \/ AssetsFetched
  \/ RecipientTyped
  \/ AmountTyped
  \/ AssetSelected
  \/ handleSendSubmit
  \/ sendSettled
  \/ SendOpened

SpecSend == InitSend /\ [][NextSend]_vars

\* the fields of the send form
SendForm(a) == <<a.isSendOpen, a.sendRecipient, a.sendAssetKey, a.sendAmount>>

\* a 0x-prefixed address of 40 hex digits
IsAddress(text) ==
  /\ Len(text) = 42
  /\ SubSeq(text, 1, 2) = <<"0", "x">>
  /\ \A i \in 3..42 : text[i] \in {"0", "1", "2", "3", "4", "5", "6", "7", "8", "9",
                                   "a", "b", "c", "d", "e", "f", "A", "B", "C", "D", "E", "F"}

\* the asset the form's key names
ChosenAssets(a) ==
  {i \in 1..Len(a.availableAssets) :
     <<a.availableAssets[i].chain, a.availableAssets[i].symbol>> = a.sendAssetKey}

\* the number the amount field holds lies in (0, balance]
AmountWithin(a, balance) ==
  LET n == StringToNumber(a.sendAmount)
  IN  n.kind = "num" /\ n.v > 0 /\ n.v <= balance.v

\* everything a send requires of the state it is made in; the recipient is the field's
\* text without the white space around it
SendConditions(a) ==
  /\ a.smartAccountClient
  /\ IsAddress(trim(a.sendRecipient))
  /\ \E i \in ChosenAssets(a) :
       /\ \A k \in ChosenAssets(a) : i <= k
       /\ a.availableAssets[i].chainId = 1946
       /\ AmountWithin(a, a.availableAssets[i].balance)
       /\ \/ a.availableAssets[i].isNative
          \/ IsAddress(a.availableAssets[i].tokenAddress)

(* C29: handleSendSubmit issues a sendTransaction only if, at that moment, the client
   exists, the recipient is a 0x-prefixed 40-hex-digit address, a selected asset exists
   whose chain id is 1946, the amount is a finite number with 0 < amount <= the asset's
   balance, and the asset is native or has a 40-hex-digit token address; called in any
   other state it sends nothing and leaves the send form as it was. *)
C29_SendSafety ==
  [][/\ app'.sent # app.sent =>
          /\ app'.submits = app.submits + 1
          /\ SendConditions(app)
          /\ Len(app'.sent) = Len(app.sent) + 1
          /\ SubSeq(app'.sent, 1, Len(app.sent)) = app.sent
          /\ IsAddress(IF app'.sent[Len(app'.sent)].data.functionName = "transfer"
                       THEN app'.sent[Len(app'.sent)].data.args[1]
                       ELSE app'.sent[Len(app'.sent)].to)
     /\ (app'.submits # app.submits /\ ~SendConditions(app)) =>
          /\ app'.sent = app.sent
          /\ SendForm(app') = SendForm(app)]_vars

\* a transfer of a token to a recipient typed with white space around it was sent, and a
\* call made on a mainnet asset was refused
C29_Witness ==
  /\ app # <<>>
  /\ app.submits = 2
  /\ Len(app.sent) = 1
  /\ app.sent[1].data.functionName = "transfer"
  /\ app.settled = 0
  /\ app.sendRecipient = <<" ">> \o AddressText \o <<" ">>
  /\ selectedAsset(app) # <<>>
  /\ selectedAsset(app).chainId = MainnetId

----------------------------------------------------------------------------
(* App.tsx: the enter gate. ready and authenticated are usePrivy()'s values  *)
(* and enterPhase the state as of the last render; a setEnterPhase is queued *)
(* until the next render; the effect on [ready, authenticated, enterPhase]   *)
(* runs after a render that changed one of them, before any later render;    *)
(* a timer callback can run between a render and its effect.                 *)

\* how many times the user logs in
MaxLogins == 3

\* the component as it mounts: the effect of the first render is due
NewGate ==
  [ready |-> FALSE, authenticated |-> FALSE, enterPhase |-> "GATE", queued |-> <<>>,
   effectDue |-> TRUE, zoomTimeoutRef |-> 0, timers |-> {}, created |-> 0, logins |-> 0,
   chartBgEnter |-> FALSE, bgTimers |-> 0, viewMode |-> "chart"]

InitGate ==
  /\ AppIdle
  /\ app = NewGate

\* clearZoomTimer with the clearTimeout left out
clearZoomTimerKeepTimeout(a) ==
  IF a.zoomTimeoutRef # 0 THEN [a EXCEPT !.zoomTimeoutRef = 0] ELSE a

\* if (zoomTimeoutRef.current) { window.clearTimeout(...); zoomTimeoutRef.current = null; }
clearZoomTimer(a) ==
  IF a.zoomTimeoutRef # 0
  THEN [a EXCEPT !.timers = @ \ {a.zoomTimeoutRef}, !.zoomTimeoutRef = 0]
  ELSE a

\* setEnterPhase(phase): the last value queued is the one the next render takes
setEnterPhase(a, phase) == [a EXCEPT !.queued = <<phase>>]

\* startEnterZoom, enterPhase being the value of the render the call belongs to
startEnterZoom(a) ==
  IF a.enterPhase = "DASHBOARD" \/ a.enterPhase = "ZOOMING" THEN a
  ELSE LET cleared == setEnterPhase(clearZoomTimer(a), "ZOOMING")
       IN  [cleared EXCEPT !.created = @ + 1,
                           !.timers = @ \cup {a.created + 1},
                           !.zoomTimeoutRef = a.created + 1]

\* the body of the effect on [ready, authenticated, enterPhase]; of the logout branch
\* the timer, the phase and the view mode are kept
enterEffect(a) ==
  IF ~a.ready THEN a
  ELSE IF ~a.authenticated
       THEN [setEnterPhase(clearZoomTimer(a), "GATE") EXCEPT !.viewMode = "chart"]
  ELSE IF a.enterPhase # "DASHBOARD" /\ a.enterPhase # "ZOOMING" THEN startEnterZoom(a)
  ELSE a

\* a render: the queued phase becomes the state, and the effect is due if a dependency
\* changed
rendered(a, ready, authenticated) ==
  LET phase == IF a.queued = <<>> THEN a.enterPhase ELSE a.queued[1]
  IN  [a EXCEPT !.ready = ready, !.authenticated = authenticated, !.enterPhase = phase,
                !.queued = <<>>,
                !.effectDue = \/ ready # a.ready
                              \/ authenticated # a.authenticated
                              \/ phase # a.enterPhase]

\* usePrivy() hands over new values: the session becomes ready, the user logs in or out
PrivyChanged ==
  /\ ~app.effectDue
  /\ \E authenticated \in BOOLEAN :
       /\ app.ready => authenticated # app.authenticated
       /\ authenticated /\ ~app.authenticated => app.logins < MaxLogins
       /\ app' = [rendered(app, TRUE, authenticated) EXCEPT
                    !.logins = IF authenticated /\ ~app.authenticated THEN @ + 1 ELSE @]
  /\ UNCHANGED layoutVars

\* the render a queued setEnterPhase asks for
PhaseRendered ==
  /\ ~app.effectDue
  /\ app.queued # <<>>
  /\ app' = rendered(app, app.ready, app.authenticated)
  /\ UNCHANGED layoutVars

\* the effect runs
EnterEffect ==
  /\ app.effectDue
  /\ app' = [enterEffect(app) EXCEPT !.effectDue = FALSE]
  /\ UNCHANGED layoutVars

\* the zoom timer fires: setEnterPhase("DASHBOARD"); setChartBgEnter(true);
\* window.setTimeout(() => setChartBgEnter(false), 2300); zoomTimeoutRef.current = null.
\* The timer runs 1550 ms: the render asked for by the call that set it comes first
ZoomTimerFired ==
  /\ app.queued # <<"ZOOMING">>
  /\ \E id \in app.timers :
       app' = [setEnterPhase(app, "DASHBOARD") EXCEPT !.timers = @ \ {id},
                                                      !.zoomTimeoutRef = 0,
                                                      !.chartBgEnter = TRUE,
                                                      !.bgTimers = @ + 1]
  /\ UNCHANGED layoutVars

\* the timer of the chart background fires: setChartBgEnter(false)
BgTimerFired ==
  /\ app.bgTimers > 0
  /\ app' = [app EXCEPT !.bgTimers = @ - 1, !.chartBgEnter = FALSE]
  /\ UNCHANGED layoutVars

\* the dashboard's navigation: setViewMode
ViewModeChanged ==
  /\ app.enterPhase = "DASHBOARD"
  /\ \E mode \in {"chart", "gallery"} :
       /\ mode # app.viewMode
       /\ app' = [app EXCEPT !.viewMode = mode]
  /\ UNCHANGED layoutVars

NextGate ==
  \/ PrivyChanged
  \/ PhaseRendered
  \/ EnterEffect
  \/ ZoomTimerFired
  \/ BgTimerFired
  \/ ViewModeChanged

SpecGate == InitGate /\ [][NextGate]_vars

\* React runs a due effect and makes a render asked for
FairGate == SpecGate /\ WF_vars(EnterEffect) /\ WF_vars(PhaseRendered)

\* the moves of the phase: into ZOOMING from GATE with the session ready and
\* authenticated and a timer started; into DASHBOARD from ZOOMING, queued by a timer;
\* back to GATE
PhaseMoves ==
  app'.enterPhase # app.enterPhase =>
    \/ app'.enterPhase = "GATE"
    \/ /\ app.enterPhase = "GATE"
       /\ app'.enterPhase = "ZOOMING"
    \/ /\ app.enterPhase = "ZOOMING"
       /\ app'.enterPhase = "DASHBOARD"

\* a timer is started only in GATE, ready and authenticated, where ZOOMING is asked for
TimerStarts ==
  app'.created # app.created =>
    /\ app.enterPhase = "GATE" /\ app.ready /\ app.authenticated
    /\ app'.queued = <<"ZOOMING">>
    /\ app'.created = app.created + 1

\* the effect on a ready session that is not authenticated leaves no timer and asks for
\* GATE
LogoutClears ==
  (app.effectDue /\ ~app'.effectDue /\ app.ready /\ ~app.authenticated) =>
    /\ app'.timers = {}
    /\ app'.queued = <<"GATE">>

(* C30: the phase moves only GATE -> ZOOMING (ready and authenticated) -> DASHBOARD (the
   zoom timer fired); startEnterZoom does nothing in ZOOMING or DASHBOARD, so at most one
   zoom timer is pending; when the session is ready and not authenticated the pending
   timer is cleared and the phase returns to GATE, so if the user stays logged out the
   phase eventually is GATE and stays GATE, however logout and timer callback
   interleave. *)
C30_EnterGate ==
  /\ [][PhaseMoves /\ TimerStarts /\ LogoutClears]_vars
  /\ [](Cardinality(app.timers) <= 1)
  /\ [](app.enterPhase = "ZOOMING" /\ app.queued = <<>> /\ ~app.effectDue
          => Cardinality(app.timers) = 1)
  /\ <>[](app.ready /\ ~app.authenticated)
       => <>[](app.enterPhase = "GATE" /\ app.queued = <<>> /\ app.timers = {})

\* the user logged out during the zoom and the timer fired before the effect of the
\* logout ran
C30_Witness ==
  /\ app # <<>>
  /\ app.ready /\ ~app.authenticated
  /\ app.effectDue
  /\ app.enterPhase = "ZOOMING"
  /\ app.queued = <<"DASHBOARD">>
  /\ app.timers = {}
  /\ app.logins > 1

====
